---- MODULE Spec2Model ----
(***************************************************************************)
(* StockFlow: the stock ledger of the inventory application.               *)
(*                                                                         *)
(* The model covers the 'inventory' collection of the document store, the  *)
(* client's copy of it (the React state `items`), and the handlers that    *)
(* read and write them: the TEMP_USE transaction form, the import modal    *)
(* (manual parse) with handleImport in its three modes,                    *)
(* the status computation, the dashboard totals and the transaction        *)
(* report.                                                                 *)
(*                                                                         *)
(* Numbers.  Amounts are JavaScript numbers in the source.  The model      *)
(* keeps them as exact decimal fixed-point values counted in thousandths   *)
(* (milli-units): 100.00 is 100000, the tolerances 0.05 and 0.01 are 50 and 10.  *)
(* NaN is kept as a value of its own that every arithmetic operation       *)
(* propagates and every comparison answers FALSE for.  Binary rounding of  *)
(* IEEE doubles is not modelled.                                           *)
(*                                                                         *)
(* Text.  A pasted text is a sequence of lines, a line is the sequence of  *)
(* its whitespace-separated tokens (the result of split(/\s+/) on the      *)
(* trimmed line), a token is a sequence of one-character strings.          *)
(***************************************************************************)
EXTENDS Integers, Sequences, FiniteSets, TLC

(***************************************************************************)
(* Bounds of the model.                                                    *)
(***************************************************************************)
\* documents the inventory collection may hold (uuid's are 1..MaxItems)
MaxItems == 3
\* the clock (Date.now()) runs over 0..MaxTime
MaxTime == 1
\* lines of one pasted text
MaxLines == 2

(***************************************************************************)
(* JavaScript numbers, in thousandths.                                     *)
(***************************************************************************)
NaN == -999999999

IsNaN(x) == x = NaN

Add(a, b) == IF IsNaN(a) \/ IsNaN(b) THEN NaN ELSE a + b

Sub(a, b) == IF IsNaN(a) \/ IsNaN(b) THEN NaN ELSE a - b

\* Math.abs
MathAbs(a) == IF IsNaN(a) THEN NaN ELSE IF a < 0 THEN 0 - a ELSE a

\* a < b and a > b of JavaScript: FALSE as soon as one side is NaN
Less(a, b) == ~IsNaN(a) /\ ~IsNaN(b) /\ a < b

Greater(a, b) == ~IsNaN(a) /\ ~IsNaN(b) /\ a > b

\* `x || 0` on a number: 0 and NaN are falsy
OrZero(x) == IF IsNaN(x) THEN 0 ELSE x

\* parseFloat(x.toFixed(2)) for x >= 0: round half up to hundredths
ToFixed2(x) == IF IsNaN(x) THEN NaN ELSE ((x + 5) \div 10) * 10

(***************************************************************************)
(* parseFloat on a token.                                                  *)
(***************************************************************************)
Digits == {"0", "1", "2", "3", "4", "5", "6", "7", "8", "9"}

DigitVal(c) ==
  CASE c = "0" -> 0 [] c = "1" -> 1 [] c = "2" -> 2 [] c = "3" -> 3
    [] c = "4" -> 4 [] c = "5" -> 5 [] c = "6" -> 6 [] c = "7" -> 7
    [] c = "8" -> 8 [] c = "9" -> 9

\* the first index >= i of s that holds no digit (Len(s)+1 when none)
RECURSIVE DigitRunEnd(_, _)
DigitRunEnd(s, i) ==
  IF i > Len(s) \/ s[i] \notin Digits THEN i ELSE DigitRunEnd(s, i + 1)

\* the decimal value of the digits s[i..j-1]
RECURSIVE DigitsValue(_, _, _)
DigitsValue(s, i, j) ==
  IF j <= i THEN 0 ELSE DigitsValue(s, i, j - 1) * 10 + DigitVal(s[j - 1])

\* the first three fraction digits s[i..j-1] as thousandths
FracMilli(s, i, j) ==
  LET d(k) == IF i + k < j THEN DigitVal(s[i + k]) ELSE 0
  IN  d(0) * 100 + d(1) * 10 + d(2)

\* parseFloat: optional sign, digits, optional '.' and digits; the longest
\* such prefix is the value, and no digit at all is NaN
ParseFloat(s) ==
  LET start == IF Len(s) >= 1 /\ s[1] \in {"+", "-"} THEN 2 ELSE 1
      sign == IF Len(s) >= 1 /\ s[1] = "-" THEN -1 ELSE 1
      intEnd == DigitRunEnd(s, start)
      hasDot == intEnd <= Len(s) /\ s[intEnd] = "."
      fracEnd == IF hasDot THEN DigitRunEnd(s, intEnd + 1) ELSE intEnd
      noInt == intEnd = start
      noFrac == ~hasDot \/ fracEnd = intEnd + 1
  IN  IF noInt /\ noFrac THEN NaN
      ELSE sign * (DigitsValue(s, start, intEnd) * 1000
                   + (IF hasDot THEN FracMilli(s, intEnd + 1, fracEnd) ELSE 0))

(***************************************************************************)
(* Ledger items.  A StockItem of the model keeps the fields the ledger     *)
(* arithmetic reads: id, code, amount, type, createdAt.                    *)
(***************************************************************************)
\* the keys of a list of records, in order of first appearance
RECURSIVE CodeOrder(_)
CodeOrder(its) ==
  IF its = <<>> THEN <<>>
  ELSE LET front == CodeOrder(SubSeq(its, 1, Len(its) - 1))
           c == its[Len(its)].code
       IN  IF \E k \in 1..Len(front) : front[k] = c THEN front
           ELSE Append(front, c)

CodesOf(its) == {its[k].code : k \in 1..Len(its)}

\* transactionsByCode[code] / grouped[code]: the items of a code, in list order
ItemsOfCode(its, code) == SelectSeq(its, LAMBDA i : i.code = code)

\* Array.prototype.sort((a, b) => a.createdAt - b.createdAt): a stable sort
RECURSIVE InsertByCreatedAt(_, _)
InsertByCreatedAt(sorted, x) ==
  IF sorted = <<>> THEN <<x>>
  ELSE IF sorted[Len(sorted)].createdAt <= x.createdAt THEN Append(sorted, x)
  ELSE Append(InsertByCreatedAt(SubSeq(sorted, 1, Len(sorted) - 1), x),
              sorted[Len(sorted)])

\* seeded fault: the items of a code are taken in list order, unsorted
Unsorted(s) == s

RECURSIVE SortByCreatedAt(_)
SortByCreatedAt(s) ==
  IF s = <<>> THEN <<>>
  ELSE InsertByCreatedAt(SortByCreatedAt(SubSeq(s, 1, Len(s) - 1)), s[Len(s)])

\* seeded fault: a last TEMP_USE item no longer opens the account
StatusOfLastInOnly(lastTx) ==
  IF lastTx.type = "IN" THEN "OPEN" ELSE "CLOSED"

\* the status one code gets from the type of the last of its sorted items
StatusOfLast(lastTx) ==
  IF lastTx.type = "IN" \/ lastTx.type = "TEMP_USE" THEN "OPEN" ELSE "CLOSED"

\* App.accountStatusMap: a map from the codes that have items to their status
accountStatusMap(its) ==
  [code \in CodesOf(its) |->
     LET txs == SortByCreatedAt(ItemsOfCode(its, code))
     IN  StatusOfLast(txs[Len(txs)])]

\* `statusMap[code] || 'CLOSED'`
StatusLookup(map, code) == IF code \in DOMAIN map THEN map[code] ELSE "CLOSED"

\* App.uniqueCodes (as a set; the source sorts it for the datalist)
uniqueCodes(its) == CodesOf(its)

\* `officialInventoryMap.get(code) || 0`
MapGetOrZero(map, code) == IF code \in DOMAIN map THEN OrZero(map[code]) ELSE 0

\* one step of the items.forEach that fills officialInventoryMap
OfficialStep(map, item) ==
  LET currentOfficial == MapGetOrZero(map, item.code)
      put(v) == [c \in DOMAIN map \cup {item.code} |->
                   IF c = item.code THEN v ELSE map[c]]
  IN  IF item.type = "IN" THEN put(Add(currentOfficial, item.amount))
      ELSE IF item.type = "OUT" THEN put(Sub(currentOfficial, item.amount))
      ELSE map

\* handleImport's officialInventoryMap: IN adds, OUT subtracts, per code
RECURSIVE officialInventoryMap(_)
officialInventoryMap(its) ==
  IF its = <<>> THEN <<>>
  ELSE OfficialStep(officialInventoryMap(SubSeq(its, 1, Len(its) - 1)),
                    its[Len(its)])

(***************************************************************************)
(* Dashboard.stats                                                         *)
(***************************************************************************)
\* reduce((acc, item) => acc + item.amount, 0)
RECURSIVE SumAmounts(_)
SumAmounts(its) ==
  IF its = <<>> THEN 0
  ELSE Add(SumAmounts(SubSeq(its, 1, Len(its) - 1)), its[Len(its)].amount)

OfType(its, t) == SelectSeq(its, LAMBDA i : i.type = t)

totalIn(data) == SumAmounts(OfType(data, "IN"))

totalOut(data) == SumAmounts(OfType(data, "OUT"))

totalTemp(data) == SumAmounts(OfType(data, "TEMP_USE"))

officialInventoryValue(data) == Sub(totalIn(data), totalOut(data))

\* seeded fault: the TEMP_USE total is not taken off the physical balance
physicalInventoryValueNoTemp(data) == Sub(totalIn(data), totalOut(data))

physicalInventoryValue(data) ==
  Sub(Sub(totalIn(data), totalOut(data)), totalTemp(data))

(***************************************************************************)
(* TransactionReport.calculatedTransactions                                *)
(***************************************************************************)
\* currentBalance after the first n items of a code's sorted list
RECURSIVE RunningBalance(_, _)
RunningBalance(sorted, n) ==
  IF n = 0 THEN 0
  ELSE LET prev == RunningBalance(sorted, n - 1)
           item == sorted[n]
       IN  IF item.type = "IN" THEN Add(prev, item.amount)
           ELSE IF item.type = "OUT" THEN Sub(prev, item.amount)
           ELSE IF item.type = "TEMP_USE" THEN Sub(prev, item.amount)
           ELSE prev

\* the rows one code pushes, in ascending createdAt order
RECURSIVE RowsOfSorted(_, _)
RowsOfSorted(sorted, n) ==
  IF n = 0 THEN <<>>
  ELSE LET item == sorted[n]
           rest == RowsOfSorted(sorted, n - 1)
       IN  IF item.type = "TEMP_USE"
           THEN Append(rest, [id |-> item.id, code |-> item.code,
                              amount |-> item.amount,
                              balanceBefore |-> RunningBalance(sorted, n - 1),
                              balanceAfter |-> RunningBalance(sorted, n),
                              createdAt |-> item.createdAt])
           ELSE rest

RowsOfCode(its, code) ==
  LET sorted == SortByCreatedAt(ItemsOfCode(its, code))
  IN  RowsOfSorted(sorted, Len(sorted))

\* results before the final sort: the rows of each code, code after code
RECURSIVE RowsOfCodes(_, _, _)
RowsOfCodes(its, codes, n) ==
  IF n = 0 THEN <<>>
  ELSE RowsOfCodes(its, codes, n - 1) \o RowsOfCode(its, codes[n])

\* results.sort((a, b) => b.createdAt - a.createdAt): stable, newest first
RECURSIVE InsertNewestFirst(_, _)
InsertNewestFirst(sorted, x) ==
  IF sorted = <<>> THEN <<x>>
  ELSE IF sorted[Len(sorted)].createdAt >= x.createdAt THEN Append(sorted, x)
  ELSE Append(InsertNewestFirst(SubSeq(sorted, 1, Len(sorted) - 1), x),
              sorted[Len(sorted)])

RECURSIVE SortNewestFirst(_)
SortNewestFirst(s) ==
  IF s = <<>> THEN <<>>
  ELSE InsertNewestFirst(SortNewestFirst(SubSeq(s, 1, Len(s) - 1)), s[Len(s)])

calculatedTransactions(its) ==
  LET codes == CodeOrder(its)
  IN  SortNewestFirst(RowsOfCodes(its, codes, Len(codes)))

\* currentBalance of a code when its forEach ends
FinalRunningBalance(its, code) ==
  LET sorted == SortByCreatedAt(ItemsOfCode(its, code))
  IN  RunningBalance(sorted, Len(sorted))

\* TransactionReport.totalUsage ('Total Pending Cost')
totalUsage(its) == SumAmounts(OfType(its, "TEMP_USE"))

(***************************************************************************)
(* ImportModal.handleManualParse: one parsed record per line, or none.     *)
(* A parsed record keeps code, provider, phoneNumber and amount.           *)
(***************************************************************************)
ImportModes == {"ADD_STOCK", "CALCULATE_USAGE", "AUDIT_SYSTEM"}

\* a missing array element (parts[2] of a two-token line)
Undefined == <<"undefined">>

\* lastPart.replace(/,/g, '')
RemoveCommas(tok) == SelectSeq(tok, LAMBDA c : c # ",")

\* parts[1].replace('-', ''): the first hyphen only
RECURSIVE RemoveFirstHyphen(_)
RemoveFirstHyphen(tok) ==
  IF tok = <<>> THEN <<>>
  ELSE IF Head(tok) = "-" THEN Tail(tok)
  ELSE <<Head(tok)>> \o RemoveFirstHyphen(Tail(tok))

\* AUDIT_SYSTEM: "1. C101- Phone Provider ... Amount"
ParseAuditLine(parts) ==
  IF Len(parts) < 3 THEN <<>>
  ELSE LET stripped == RemoveFirstHyphen(parts[2])
           amount == ParseFloat(RemoveCommas(parts[Len(parts)]))
           code == IF stripped = <<>> /\ Len(parts) > 2 THEN parts[3] ELSE stripped
           provider == IF Len(parts) > 4 THEN parts[4] ELSE <<"S","y","s","t","e","m">>
           phone == parts[3]
       IN  IF IsNaN(amount) THEN <<>>
           ELSE <<[code |-> code, provider |-> provider,
                   phoneNumber |-> phone, amount |-> amount]>>

\* CALCULATE_USAGE: "Code Provider Phone Amount"
ParseUsageLine(parts) ==
  LET code == parts[1]
      provider == IF Len(parts) >= 2 THEN parts[2] ELSE Undefined
      phone == IF Len(parts) >= 3 THEN parts[3] ELSE Undefined
      val == IF Len(parts) >= 4 THEN ParseFloat(parts[Len(parts)]) ELSE NaN
      amount == IF Len(parts) >= 4 /\ ~IsNaN(val) THEN val ELSE 0
  IN  IF code = <<>> \/ provider = Undefined \/ provider = <<>> THEN <<>>
      ELSE <<[code |-> code, provider |-> provider,
              phoneNumber |-> phone, amount |-> amount]>>

\* ADD_STOCK: "Date Code Provider Phone Amount"
ParseStockLine(parts) ==
  IF Len(parts) < 5 THEN <<>>
  ELSE <<[code |-> parts[2], provider |-> parts[3],
          phoneNumber |-> parts[4], amount |-> ParseFloat(parts[5])]>>

\* the body of lines.map: no record for an empty line
ParseLine(parts, mode) ==
  IF parts = <<>> THEN <<>>
  ELSE IF mode = "AUDIT_SYSTEM" THEN ParseAuditLine(parts)
  ELSE IF mode = "CALCULATE_USAGE" THEN ParseUsageLine(parts)
  ELSE ParseStockLine(parts)

\* lines.map(...).filter(item => item !== null)
RECURSIVE ParseLines(_, _)
ParseLines(text, mode) ==
  IF text = <<>> THEN <<>>
  ELSE ParseLines(SubSeq(text, 1, Len(text) - 1), mode)
       \o ParseLine(text[Len(text)], mode)

(***************************************************************************)
(* handleImport: what each imported line makes of the client's items.      *)
(***************************************************************************)
\* the tolerances of the source, in thousandths
AuditTolerance == 50

UsageTolerance == 10

\* seeded fault: a difference of exactly the tolerance counts as a MATCH
AuditResultOfInclusive(item, official) ==
  LET appBalance == MapGetOrZero(official, item.code)
      diff == Sub(appBalance, item.amount)
  IN  [code |-> item.code, appBalance |-> appBalance,
       systemBalance |-> item.amount, difference |-> diff,
       status |-> IF ~Greater(MathAbs(diff), AuditTolerance) THEN "MATCH"
                  ELSE "MISMATCH"]

\* AUDIT_SYSTEM: results = importedItems.map(...)
AuditResultOf(item, official) ==
  LET appBalance == MapGetOrZero(official, item.code)
      diff == Sub(appBalance, item.amount)
  IN  [code |-> item.code, appBalance |-> appBalance,
       systemBalance |-> item.amount, difference |-> diff,
       status |-> IF Less(MathAbs(diff), AuditTolerance) THEN "MATCH"
                  ELSE "MISMATCH"]

AuditResults(imported, official) ==
  [k \in 1..Len(imported) |-> AuditResultOf(imported[k], official)]

\* seeded fault: a Stock IN line is written whatever the status of its code
StockWriteUngated(item, statusMap, timestamp) ==
  <<[code |-> item.code, amount |-> item.amount, type |-> "IN",
     createdAt |-> timestamp]>>

\* ADD_STOCK: the record batch.set gets for a line, or none
StockWrite(item, statusMap, timestamp) ==
  IF StatusLookup(statusMap, item.code) = "CLOSED"
  THEN <<[code |-> item.code, amount |-> item.amount, type |-> "IN",
          createdAt |-> timestamp]>>
  ELSE <<>>

\* seeded fault: the posted amount is |diff| as it is, not rounded
UsageWriteUnrounded(item, statusMap, official, timestamp) ==
  IF StatusLookup(statusMap, item.code) = "OPEN"
  THEN LET currentBalance == MapGetOrZero(official, item.code)
           diff == Sub(currentBalance, item.amount)
       IN  IF Greater(MathAbs(diff), UsageTolerance)
           THEN <<[code |-> item.code, amount |-> MathAbs(diff),
                   type |-> IF Greater(diff, 0) THEN "OUT" ELSE "IN",
                   createdAt |-> timestamp]>>
           ELSE <<>>
  ELSE <<>>

\* seeded fault: a difference of exactly the tolerance is posted
UsageWriteInclusive(item, statusMap, official, timestamp) ==
  IF StatusLookup(statusMap, item.code) = "OPEN"
  THEN LET currentBalance == MapGetOrZero(official, item.code)
           diff == Sub(currentBalance, item.amount)
       IN  IF ~Less(MathAbs(diff), UsageTolerance)
           THEN <<[code |-> item.code, amount |-> ToFixed2(MathAbs(diff)),
                   type |-> IF Greater(diff, 0) THEN "OUT" ELSE "IN",
                   createdAt |-> timestamp]>>
           ELSE <<>>
  ELSE <<>>

\* CALCULATE_USAGE: the record batch.set gets for a line, or none
UsageWrite(item, statusMap, official, timestamp) ==
  IF StatusLookup(statusMap, item.code) = "OPEN"
  THEN LET currentBalance == MapGetOrZero(official, item.code)
           diff == Sub(currentBalance, item.amount)
       IN  IF Greater(MathAbs(diff), UsageTolerance)
           THEN <<[code |-> item.code, amount |-> ToFixed2(MathAbs(diff)),
                   type |-> IF Greater(diff, 0) THEN "OUT" ELSE "IN",
                   createdAt |-> timestamp]>>
           ELSE <<>>
  ELSE <<>>

\* the body of importedItems.forEach: the record batch.set gets, or none
LineWrite(item, mode, statusMap, official, timestamp) ==
  IF mode = "ADD_STOCK" THEN StockWrite(item, statusMap, timestamp)
  ELSE IF mode = "CALCULATE_USAGE"
  THEN UsageWrite(item, statusMap, official, timestamp)
  ELSE <<>>

\* the batch importedItems.forEach fills, before the ids are drawn
RECURSIVE BatchWrites(_, _, _, _, _)
BatchWrites(imported, mode, statusMap, official, timestamp) ==
  IF imported = <<>> THEN <<>>
  ELSE BatchWrites(SubSeq(imported, 1, Len(imported) - 1), mode, statusMap,
                   official, timestamp)
       \o LineWrite(imported[Len(imported)], mode, statusMap, official, timestamp)

(***************************************************************************)
(* Inputs of the model.                                                    *)
(***************************************************************************)
C1 == <<"C", "1">>

C2 == <<"C", "2">>

tDate == <<"0", "1", "-", "J", "a", "n">>

tProv == <<"P">>

tPhone == <<"0", "1", "2">>

tIdx == <<"1", ".">>

tAbc == <<"a", "b", "c">>

\* pasted lines in the Stock IN format, well-formed and not
StockLines ==
  { <<tDate, C1, tProv, tPhone, <<"1", "0", "0">> >>,
    <<tDate, C1, tProv, tPhone, tAbc>>,
    <<tDate, C1, tProv, tPhone>> }

\* pasted lines in the Ending Balance format, well-formed and not.  The
\* boundary amounts are decimals whose differences against a balance of 0
\* are the same in binary floating point as in the model's thousandths.
UsageLines ==
  { <<C1, tProv, tPhone, <<"7", "0">> >>,
    <<C1, tProv, tPhone, <<"0", ".", "0", "1">> >>,
    <<C1, tProv, tPhone, <<"1", "0", "0", ".", "0", "1", "8">> >>,
    <<C1, tProv, tPhone>> }

\* pasted lines in the System Report format, well-formed and not
AuditLines ==
  { <<tIdx, <<"C", "1", "-">>, tPhone, tProv, <<"0", ".", "0", "5">> >>,
    <<tIdx, <<"C", "1", "-">>, tPhone, tProv, <<"0", ".", "0", "4">> >>,
    <<tIdx, <<"C", "1", "-">>, tPhone, tProv, tAbc>> }

LinesOf(mode) ==
  IF mode = "ADD_STOCK" THEN StockLines
  ELSE IF mode = "CALCULATE_USAGE" THEN UsageLines
  ELSE AuditLines

\* the non-empty texts of at most MaxLines lines
TextsOf(mode) ==
  UNION {[1..n -> LinesOf(mode)] : n \in 1..MaxLines}

\* what the transaction form is filled with: code and amount as typed
FormCodes == {<<"C", "1">>, <<"c", "2">>}

FormAmounts == {<<"2", "0">>, <<"0">>}

(***************************************************************************)
(* State.  Presentation state that the ledger handlers write and do not    *)
(* read back (notification, auditResults, the modal's error, the view a    *)
(* handler switches to) is kept as the last handler left it, in lastOp,    *)
(* next to the handler's input and batch.  Navigation between the pages is *)
(* free for the user of the model, so the page a handler lives on is no    *)
(* guard of it.                                                            *)
(***************************************************************************)
VARIABLES
  inventory,          \* the documents of the store's 'inventory' collection
  items,              \* App state `items`: the last snapshot delivered
  now,                \* the clock Date.now() reads
  isImportModalOpen,  \* App state `isImportModalOpen`
  lastOp,             \* the handler that ran last: its input, its batch and
                      \* what it set notification, auditResults, error
                      \* and view to
  \* the bulk operations (export, restore, reset, seeding): every collection
  \* of the store by the keys of its documents
  cloud,              \* collection name -> the keys of its documents
  backup,             \* the file handleExportData downloaded last
  job,                \* the bulk handler that is between two awaits
  seeding,            \* where createDefaultEmployees stands
  seeded,             \* how many times the default employees were written
  runs,               \* how many bulk handlers the user has started
  trip,               \* history: export, then reset, then restore of the export
  \* the assistant (smart import and insights)
  insights,           \* App state `insights`
  loadingInsights,    \* App state `loadingInsights`
  inputText,          \* ImportModal state `inputText`, as lines
  isProcessing,       \* ImportModal state `isProcessing`
  aiCall,             \* the request parseStockDataWithGemini is waiting on
  \* the team schedule, edited from two browsers
  scheduleColl,       \* the documents of the store's 'schedule' collection
  schedule,           \* per client: App state `schedule`
  outbox,             \* per client: the setDoc calls the store has not applied
  applied,            \* history: the writes the store applied, in order
  \* the grouping of the items by code, as the last render computed it
  transactionsByCode, \* App: the groups of the status computation
  grouped,            \* TransactionReport: the groups of the report
  \* the accounts, with several browsers starting the application
  usersColl,          \* the documents of the store's 'users' collection
  users,              \* per client: App state `users`
  adminPc,            \* per client: where createDefaultAdmin stands
  \* the session of each client
  currentUser,        \* per client: App state `currentUser`
  view                \* per client: App state `view`

ledgerVars == <<inventory, items, now, isImportModalOpen, insights>>

cloudVars == <<cloud, backup, job, seeding, seeded, runs, trip>>

aiVars == <<loadingInsights, inputText, isProcessing, aiCall>>

teamVars == <<scheduleColl, schedule, outbox, applied>>

groupVars == <<transactionsByCode, grouped>>

adminVars == <<usersColl, users, adminPc>>

sessionVars == <<currentUser, view>>

\* the variables the ledger handlers leave alone
otherVars == <<cloudVars, aiVars, teamVars, groupVars, adminVars, sessionVars>>

\* the variables the bulk handlers leave alone
bulkRest == <<ledgerVars, aiVars, teamVars, groupVars, adminVars, sessionVars>>

\* the variables the assistant leaves alone, the ledger apart
aiRest == <<cloudVars, teamVars, groupVars, adminVars, sessionVars>>

\* the variables the schedule handlers leave alone
teamRest == <<ledgerVars, cloudVars, aiVars, groupVars, adminVars, sessionVars>>

\* the variables the grouping leaves alone, the ledger apart
groupRest == <<cloudVars, aiVars, teamVars, adminVars, sessionVars>>

\* the variables the seeding of the accounts leaves alone
adminRest == <<ledgerVars, cloudVars, aiVars, teamVars, groupVars, sessionVars>>

\* the variables the sessions leave alone, the ledger and the accounts apart
sessionRest == <<cloudVars, aiVars, teamVars, groupVars>>

vars == <<ledgerVars, lastOp, otherVars>>

Null == "null"

\* lastOp of a step that runs no ledger handler
Op(name) ==
  [op |-> name, mode |-> Null, text |-> <<>>, imported |-> <<>>,
   lineDocs |-> <<>>, code |-> <<>>, amount |-> 0, committed |-> FALSE,
   notification |-> <<>>, auditResults |-> <<>>, error |-> Null,
   view |-> Null]

\* the collections of the store
Colls == {"inventory", "employees", "schedule", "notes", "users"}

\* no bulk handler is running
Idle == [kind |-> "idle"]

\* nothing was exported yet
NoBackup == [exported |-> FALSE]

\* a picked file whose text JSON.parse rejects
NotJSON == [json |-> FALSE]

\* no request to the assistant is under way
NoCall == [pending |-> FALSE]

\* the bulk operations at rest
CloudInit ==
  /\ cloud = [c \in Colls |-> {}]
  /\ backup = NoBackup
  /\ job = Idle
  /\ seeding = "idle"
  /\ seeded = 0
  /\ runs = 0
  /\ trip = "none"

\* the assistant at rest: useState(false), useState('')
AIInit ==
  /\ loadingInsights = FALSE
  /\ inputText = <<>>
  /\ isProcessing = FALSE
  /\ aiCall = NoCall

\* the browsers that have the application open
Clients == {"a", "b"}

\* the schedule before anybody planned a day
TeamInit ==
  /\ scheduleColl = <<>>
  /\ schedule = [c \in Clients |-> <<>>]
  /\ outbox = [c \in Clients |-> <<>>]
  /\ applied = <<>>

\* no item, no group
NoGroups == [threw |-> FALSE, groups |-> <<>>]

\* the groups of the first render, of an empty list
GroupInit ==
  /\ transactionsByCode = NoGroups
  /\ grouped = NoGroups

\* the browsers that start the application on a new database
Browsers == {"a", "b", "c"}

\* a new database has no account, and no client has heard of the store yet
AdminInit ==
  /\ usersColl = {}
  /\ users = [c \in Browsers |-> {}]
  /\ adminPc = [c \in Browsers |-> "start"]

\* nobody is logged in
NoUser == [id |-> 0]

\* useState<User | null>(null), useState<ViewType>('dashboard')
SessionInit ==
  /\ currentUser = [c \in Browsers |-> NoUser]
  /\ view = [c \in Browsers |-> "dashboard"]

\* what the ledger handlers leave alone, as the ledger specification keeps it
OtherInit ==
  /\ CloudInit
  /\ AIInit
  /\ TeamInit
  /\ GroupInit
  /\ AdminInit
  /\ SessionInit

\* snapshot.docs: the documents of a collection, ordered by document id
RECURSIVE DocsById(_)
DocsById(docs) ==
  IF docs = {} THEN <<>>
  ELSE LET first == CHOOSE d \in docs : \A e \in docs : d.id <= e.id
       IN  <<first>> \o DocsById(docs \ {first})

\* uuidv4: ids no document of the store carries
FreshIds == (1..MaxItems) \ {d.id : d \in inventory}

Init ==
  /\ inventory = {}
  /\ items = <<>>
  /\ now = 0
  /\ isImportModalOpen = FALSE
  /\ insights = Null
  /\ lastOp = Op("init")
  /\ OtherInit

(***************************************************************************)
(* Environment: the clock, and the store's listener.                       *)
(***************************************************************************)
Tick ==
  /\ now < MaxTime
  /\ now' = now + 1
  /\ lastOp' = Op("none")
  /\ UNCHANGED <<inventory, items, isImportModalOpen, insights>>
  /\ UNCHANGED otherVars

\* onSnapshot(collection(db, 'inventory'), ...): setItems(itemList).  The SDK
\* hands a local write to the client's own listener before the next event the
\* client handles, so the callback runs as the last step of the writing handler.
unsubInventory(docs) == items' = DocsById(docs)

(***************************************************************************)
(* The import modal is an overlay: while it is open the sidebar and the    *)
(* page under it take no clicks.                                           *)
(***************************************************************************)
\* Sidebar onImportClick / ReportsView onRunAudit: setIsImportModalOpen(true)
OpenImportModal ==
  /\ ~isImportModalOpen
  /\ isImportModalOpen' = TRUE
  /\ lastOp' = Op("none")
  /\ UNCHANGED <<inventory, items, now, insights>>
  /\ UNCHANGED otherVars

\* ImportModal onClose (the X and Cancel buttons)
CloseImportModal ==
  /\ isImportModalOpen
  /\ isImportModalOpen' = FALSE
  /\ lastOp' = Op("none")
  /\ UNCHANGED <<inventory, items, now, insights>>
  /\ UNCHANGED otherVars

(***************************************************************************)
(* TransactionForm.handleSubmit and App.handleTransactionSubmit            *)
(***************************************************************************)
ToUpperChar(c) == IF c = "c" THEN "C" ELSE c

\* code.trim().toUpperCase() on a token
ToUpperCase(tok) == [k \in 1..Len(tok) |-> ToUpperChar(tok[k])]

\* seeded fault: the transaction is stored as an OUT posting
TempUseItemAsOut(id, code, amount, timestamp) ==
  [id |-> id, code |-> code, amount |-> amount, type |-> "OUT",
   createdAt |-> timestamp]

\* the TEMP_USE record handleTransactionSubmit stores
TempUseItem(id, code, amount, timestamp) ==
  [id |-> id, code |-> code, amount |-> amount, type |-> "TEMP_USE",
   createdAt |-> timestamp]

\* App.handleTransactionSubmit: setDoc, then the notification
handleTransactionSubmit(code, amount) ==
  /\ \E id \in FreshIds :
       inventory' = inventory \cup {TempUseItem(id, code, amount, now)}
  /\ unsubInventory(inventory')
  /\ lastOp' = [Op("submit") EXCEPT
                  !.code = code, !.amount = amount, !.committed = TRUE,
                  !.notification = <<"Transaction saved to Cloud!">>]

\* TransactionForm.handleSubmit: validate, then onSubmit
handleSubmit ==
  /\ ~isImportModalOpen
  /\ \E code \in FormCodes, amount \in FormAmounts :
       LET formattedCode == ToUpperCase(code)
           numAmount == ParseFloat(amount)
       IN  IF IsNaN(numAmount) \/ ~Greater(numAmount, 0)
           THEN /\ lastOp' = [Op("rejected") EXCEPT
                                !.code = formattedCode, !.amount = numAmount,
                                !.error = "Please enter a valid amount greater than 0."]
                /\ UNCHANGED <<inventory, items>>
           ELSE handleTransactionSubmit(formattedCode, numAmount)
  /\ UNCHANGED <<now, isImportModalOpen, insights>>
  /\ UNCHANGED otherVars

(***************************************************************************)
(* App.handleImport, called by the import modal with the parsed records.   *)
(***************************************************************************)
\* the document batch.set stores for a record of the batch
Doc(id, w) ==
  [id |-> id, code |-> w.code, amount |-> w.amount, type |-> w.type,
   createdAt |-> w.createdAt]

\* the documents of the batch, line by line (history): perLine[k] is what
\* line k put in the batch, ids[j] the id of the batch's j-th record
LineDocs(perLine, ids) ==
  [k \in 1..Len(perLine) |->
     IF perLine[k] = <<>> THEN {}
     ELSE {Doc(ids[Cardinality({j \in 1..k : perLine[j] # <<>>})], perLine[k][1])}]

\* lastOp of an import: the pasted text, the parsed records and the mode
ImportOp(text, imported, mode) ==
  [Op("import") EXCEPT !.mode = mode, !.text = text, !.imported = imported,
                       !.lineDocs = [k \in 1..Len(imported) |-> {}]]

\* seeded fault: the audited rows are saved as stock entries
handleImportAuditSaves(text, imported) ==
  /\ \E id \in FreshIds :
       inventory' = inventory \cup
         {Doc(id, [code |-> <<"C", "1">>, amount |-> 0, type |-> "IN",
                   createdAt |-> now])}
  /\ unsubInventory(inventory')
  /\ insights' = Null
  /\ lastOp' = [ImportOp(text, imported, "AUDIT_SYSTEM") EXCEPT
                  !.view = "reports",
                  !.auditResults = <<AuditResults(imported, officialInventoryMap(items))>>,
                  !.notification = <<"Audit generated (not saved to DB).">>]

\* handleImport, mode AUDIT_SYSTEM: compare and show, write nothing
handleImportAudit(text, imported) ==
  /\ UNCHANGED <<inventory, items>>
  /\ insights' = Null
  /\ lastOp' = [ImportOp(text, imported, "AUDIT_SYSTEM") EXCEPT
                  !.view = "reports",
                  !.auditResults = <<AuditResults(imported, officialInventoryMap(items))>>,
                  !.notification = <<"Audit generated (not saved to DB).">>]

handleImport(text, imported, mode) ==
  LET official == officialInventoryMap(items)
      statusMap == accountStatusMap(items)
      timestamp == now
      imp(name) == ImportOp(text, imported, mode)
  IN
  IF mode = "AUDIT_SYSTEM"
  THEN handleImportAudit(text, imported)
  ELSE LET writes == BatchWrites(imported, mode, statusMap, official, timestamp)
           perLine == [k \in 1..Len(imported) |->
                         LineWrite(imported[k], mode, statusMap, official, timestamp)]
           count == Len(writes)
       IN  IF count > 0
           THEN \E ids \in [1..count -> FreshIds] :
                  /\ \A a, b \in 1..count : a # b => ids[a] # ids[b]
                  /\ inventory' = inventory
                       \cup {Doc(ids[j], writes[j]) : j \in 1..count}
                  /\ unsubInventory(inventory')
                  /\ UNCHANGED insights
                  /\ lastOp' = [imp("import") EXCEPT
                                  !.committed = TRUE,
                                  !.lineDocs = LineDocs(perLine, ids),
                                  !.view = "list if on reports",
                                  !.notification = <<"Synced records to Cloud.", count>>]
           ELSE /\ UNCHANGED <<inventory, items, insights>>
                /\ lastOp' = [imp("import") EXCEPT
                                !.notification = <<"No new records to sync.">>]

\* ImportModal.handleManualParse: parse, then onImport, onClose, setInputText('')
handleManualParse ==
  /\ isImportModalOpen
  /\ \E mode \in ImportModes :
       \E text \in TextsOf(mode) :
         LET parsed == ParseLines(text, mode)
         IN  IF Len(parsed) = 0
             THEN /\ lastOp' = [Op("unparsed") EXCEPT
                                  !.mode = mode, !.text = text,
                                  !.error = "Could not parse text."]
                  /\ UNCHANGED <<inventory, items, isImportModalOpen, insights>>
             ELSE /\ handleImport(text, parsed, mode)
                  /\ isImportModalOpen' = FALSE
  /\ UNCHANGED now
  /\ UNCHANGED otherVars

Next ==
  \/ Tick
  \/ OpenImportModal
  \/ CloseImportModal
  \/ handleSubmit
  \/ handleManualParse

Spec == Init /\ [][Next]_vars

TypeOK ==
  /\ now \in 0..MaxTime
  /\ Cardinality(inventory) <= MaxItems
  /\ items = DocsById(inventory)
  /\ isImportModalOpen \in BOOLEAN

(***************************************************************************)
(* Bulk operations: handleExportData, handleRestoreData, handleResetData   *)
(* and createDefaultEmployees.  A document is kept by its key (item.id, or *)
(* item.day for a schedule day); a collection, in the store and in a       *)
(* backup file, is the set of its keys, and an array of a file is read in  *)
(* ascending key order.  The listeners hand every write to the client, so  *)
(* the client's lists hold the store's documents.  A handler takes one     *)
(* step per await.                                                         *)
(***************************************************************************)
\* bounds: the documents of the larger initial inventory, the records of the
\* larger backup file, the bulk handlers the user starts
MaxDocs == 501

MaxRecords == 451

MaxRuns == 3

\* uploadCollection commits when opCount reaches 450
ChunkSize == 450

\* the per-batch operation limit the source names
BatchLimit == 500

\* defaultStaffNames.length
DefaultStaff == 7

\* the order handleRestoreData uploads the collections in
RestoreOrder == <<"inventory", "employees", "schedule", "notes", "users">>

\* the order handleResetData clears the collections in
ResetOrder == <<"inventory", "schedule", "notes", "employees">>

\* what a step of a bulk handler did and set: the size of the batch it
\* handed to commit() (-1: none), the notification and view it set
BulkOp(name) ==
  [op |-> name, batch |-> -1, notification |-> <<>>, view |-> Null,
   error |-> Null, declined |-> FALSE]

\* the keys of n records written outside this client (uuid's)
FileKeys(n) == {2000 + k : k \in 1..n}

\* backup files the user may pick besides the last export: one whose items
\* exceed a chunk, one whose items fill a chunk exactly and that has no
\* notes and no users, and one that is no JSON
ExternalFiles ==
  { [inventory |-> FileKeys(MaxRecords), employees |-> FileKeys(2),
     schedule |-> FileKeys(1), notes |-> FileKeys(1), users |-> FileKeys(1)],
    [inventory |-> FileKeys(ChunkSize), employees |-> FileKeys(2),
     schedule |-> FileKeys(1), notes |-> {}],
    NotJSON }

\* stores the application can have filled
InitialClouds ==
  { [inventory |-> 1..n, employees |-> 1..DefaultStaff, schedule |-> 1..1,
     notes |-> 1..1, users |-> 1..1] : n \in {2, MaxDocs} }

BulkInit ==
  /\ inventory = {}
  /\ items = <<>>
  /\ now = 0
  /\ isImportModalOpen = FALSE
  /\ insights = Null
  /\ AIInit
  /\ TeamInit
  /\ GroupInit
  /\ AdminInit
  /\ SessionInit
  /\ lastOp = BulkOp("init")
  /\ cloud \in InitialClouds
  /\ backup = NoBackup
  /\ job = Idle
  /\ seeding = "idle"
  /\ seeded = 0
  /\ runs = 0
  /\ trip = "none"

\* handleExportData: the client's five lists go into the file
handleExportData ==
  /\ runs < MaxRuns
  /\ runs' = runs + 1
  /\ backup' = [c \in Colls |-> cloud[c]]
  /\ lastOp' = [BulkOp("export") EXCEPT !.notification = <<"Cloud data backed up.">>]
  /\ trip' = IF job = Idle /\ seeding = "idle" THEN "exported" ELSE "none"
  /\ UNCHANGED <<cloud, job, seeding, seeded, bulkRest>>

\* seeded fault: the answer of the dialog is not looked at before the wipe
DeclinedWipes(name) ==
  /\ lastOp' = [BulkOp(name) EXCEPT !.declined = TRUE]
  /\ cloud' = [cloud EXCEPT !["inventory"] = {}]
  /\ UNCHANGED <<backup, job, seeding, seeded, runs, trip>>

\* window.confirm answered with Cancel: the handler does nothing
Declined(name) ==
  /\ lastOp' = [BulkOp(name) EXCEPT !.declined = TRUE]
  /\ UNCHANGED <<cloud, backup, job, seeding, seeded, runs, trip>>

\* handleResetData up to its first await
ResetConfirmed ==
  /\ runs < MaxRuns
  /\ runs' = runs + 1
  /\ job' = [kind |-> "reset", step |-> 1, read |-> <<>>, users |-> cloud["users"]]
  /\ lastOp' = BulkOp("reset")
  /\ trip' = IF trip = "exported" THEN "resetting" ELSE "none"
  /\ UNCHANGED <<cloud, backup, seeding, seeded>>

handleResetData ==
  /\ job = Idle
  /\ \E confirmed \in BOOLEAN :
       IF confirmed THEN ResetConfirmed ELSE Declined("reset declined")
  /\ UNCHANGED bulkRest

\* the store takes a batch within the limit; a larger one it may refuse
StoreAnswers(size) == IF size <= BatchLimit THEN {TRUE} ELSE BOOLEAN

\* clearColl: getDocs, one batch with a delete per document, commit; and the
\* statements of handleResetData after the last clearColl
clearColl ==
  /\ job.kind = "reset"
  /\ IF job.step > Len(ResetOrder)
     THEN /\ job' = Idle
          /\ lastOp' = [BulkOp("reset complete") EXCEPT
                          !.notification = <<"Cloud database cleared (Users preserved).">>,
                          !.view = "dashboard"]
          /\ trip' = IF trip = "resetting" THEN "reset" ELSE "none"
          /\ UNCHANGED <<cloud, seeding>>
     ELSE LET collName == ResetOrder[job.step]
              snap == cloud[collName]
          IN  \E accepted \in StoreAnswers(Cardinality(snap)) :
                IF accepted
                THEN /\ cloud' = [cloud EXCEPT ![collName] = @ \ snap]
                     /\ job' = [job EXCEPT !.step = @ + 1,
                                           !.read = Append(@, snap)]
                     /\ lastOp' = [BulkOp("clearColl") EXCEPT
                                     !.batch = Cardinality(snap)]
                     \* unsubEmployees: an empty snapshot calls createDefaultEmployees
                     /\ seeding' = IF collName = "employees" /\ snap # {}
                                      /\ seeding = "idle"
                                   THEN "getDocs" ELSE seeding
                     /\ UNCHANGED trip
                ELSE /\ job' = Idle
                     /\ lastOp' = [BulkOp("clearColl") EXCEPT
                                     !.batch = Cardinality(snap),
                                     !.error = "commit rejected"]
                     /\ trip' = "none"
                     /\ UNCHANGED <<cloud, seeding>>
  /\ UNCHANGED <<backup, seeded, runs, bulkRest>>

\* the keys createDefaultEmployees gives the default employees (uuid's)
DefaultKeys(round) == {1000 * round + k : k \in 1..DefaultStaff}

\* createDefaultEmployees: getDocs, return if the collection is not empty;
\* else one batch with the default employees, commit
createDefaultEmployees ==
  /\ \/ /\ seeding = "getDocs"
        /\ seeding' = IF cloud["employees"] = {} THEN "commit" ELSE "idle"
        /\ lastOp' = BulkOp("getDocs")
        /\ UNCHANGED <<cloud, seeded>>
     \/ /\ seeding = "commit"
        /\ cloud' = [cloud EXCEPT !["employees"] = @ \cup DefaultKeys(seeded + 1)]
        /\ seeded' = seeded + 1
        /\ seeding' = "idle"
        /\ lastOp' = [BulkOp("seed") EXCEPT !.batch = DefaultStaff]
  /\ UNCHANGED <<backup, job, runs, trip, bulkRest>>

\* the records of a collection in a file (none when the file lacks it)
FileData(file, collName) ==
  IF collName \in DOMAIN file THEN file[collName] ELSE {}

\* the next collection uploadCollection does not return from at once
RECURSIVE NextUpload(_, _)
NextUpload(file, step) ==
  IF step > Len(RestoreOrder) THEN step
  ELSE IF FileData(file, RestoreOrder[step]) # {} THEN step
  ELSE NextUpload(file, step + 1)

\* the records uploadCollection puts in its batch before the first commit
FirstChunk(data) ==
  IF Cardinality(data) <= ChunkSize THEN data
  ELSE {k \in data : Cardinality({j \in data : j < k}) < ChunkSize}

\* handleRestoreData (reader.onload) up to its first await
RestoreConfirmed(file) ==
  /\ runs < MaxRuns
  /\ runs' = runs + 1
  /\ job' = [kind |-> "restore", file |-> file, step |-> NextUpload(file, 1),
             pos |-> 0]
  /\ lastOp' = [BulkOp("restore") EXCEPT
                  !.notification = <<"Restoring... Do not close.">>]
  /\ trip' = IF trip = "reset" /\ file = backup THEN "restoring" ELSE "none"
  /\ UNCHANGED <<cloud, backup, seeding, seeded>>

handleRestoreData ==
  /\ job = Idle
  /\ \E file \in ExternalFiles \cup (IF backup = NoBackup THEN {} ELSE {backup}) :
       IF file = NotJSON
       THEN /\ lastOp' = [BulkOp("restore") EXCEPT !.error = "Error restoring file."]
            /\ UNCHANGED <<cloud, backup, job, seeding, seeded, runs, trip>>
       ELSE \E confirmed \in BOOLEAN :
              IF confirmed THEN RestoreConfirmed(file)
              ELSE Declined("restore declined")
  /\ UNCHANGED bulkRest

\* uploadCollection: batch.set per record, commit when opCount reaches 450
\* and after the loop; a WriteBatch takes no set() once commit() was called
\* on it.  And the statements of handleRestoreData after the last upload.
uploadCollection ==
  /\ job.kind = "restore"
  /\ IF job.step > Len(RestoreOrder)
     THEN /\ job' = Idle
          /\ lastOp' = [BulkOp("restore complete") EXCEPT
                          !.notification = <<"Restore Complete! Data is live.">>,
                          !.view = "dashboard"]
          /\ trip' = IF trip = "restoring" THEN "restored" ELSE "none"
          /\ UNCHANGED cloud
     ELSE IF job.pos > 0
     THEN \* the loop goes on after the commit: batch.set throws, catch alerts
          /\ job' = Idle
          /\ lastOp' = [BulkOp("restore failed") EXCEPT
                          !.error = "Error restoring file."]
          /\ trip' = IF trip = "restoring" THEN "restored" ELSE "none"
          /\ UNCHANGED cloud
     ELSE LET collName == RestoreOrder[job.step]
              data == FileData(job.file, collName)
              chunk == FirstChunk(data)
          IN  /\ cloud' = [cloud EXCEPT ![collName] = @ \cup chunk]
              /\ lastOp' = [BulkOp("uploadCollection") EXCEPT
                              !.batch = Cardinality(chunk)]
              /\ job' = IF Cardinality(data) <= ChunkSize
                        THEN [job EXCEPT !.step = NextUpload(job.file, @ + 1)]
                        ELSE [job EXCEPT !.pos = ChunkSize]
              /\ UNCHANGED trip
  /\ UNCHANGED <<backup, seeding, seeded, runs, bulkRest>>

BulkNext ==
  \/ handleExportData
  \/ handleResetData
  \/ clearColl
  \/ createDefaultEmployees
  \/ handleRestoreData
  \/ uploadCollection

SpecBulk == BulkInit /\ [][BulkNext]_vars

(***************************************************************************)
(* The ledger as a set: the reference the claims are stated against.       *)
(***************************************************************************)
SetOf(its) == {its[k] : k \in 1..Len(its)}

PosIn(its, i) == CHOOSE k \in 1..Len(its) : its[k] = i

\* j comes before i when a code's items are taken in ascending createdAt
\* order, items of equal createdAt in the order of the list
Precedes(its, j, i) ==
  \/ j.createdAt < i.createdAt
  \/ j.createdAt = i.createdAt /\ PosIn(its, j) < PosIn(its, i)

OfCode(its, code) == {i \in SetOf(its) : i.code = code}

\* the items of a code that carry its greatest createdAt
Newest(its, code) ==
  {i \in OfCode(its, code) : \A j \in OfCode(its, code) : j.createdAt <= i.createdAt}

\* among them, the one latest in the list
Latest(its, code) ==
  CHOOSE i \in OfCode(its, code) :
    \A j \in OfCode(its, code) : j # i => Precedes(its, j, i)

RECURSIVE SetSum(_)
SetSum(S) ==
  IF S = {} THEN 0
  ELSE LET x == CHOOSE y \in S : TRUE
       IN  Add(x.amount, SetSum(S \ {x}))

TypeSum(S, t) == SetSum({i \in S : i.type = t})

\* IN minus OUT
OfficialOf(S) == Sub(TypeSum(S, "IN"), TypeSum(S, "OUT"))

\* IN minus OUT minus TEMP_USE
PhysicalOf(S) == Sub(OfficialOf(S), TypeSum(S, "TEMP_USE"))

OpensAccount(i) == i.type = "IN" \/ i.type = "TEMP_USE"

ModelCodes == {C1, C2}

IsExampleLedger(its) ==
  /\ Len(its) = 3
  /\ \E i, j, k \in SetOf(its) :
       /\ i.type = "IN" /\ i.amount = 100000
       /\ j.type = "OUT" /\ j.amount = 30000
       /\ k.type = "TEMP_USE" /\ k.amount = 20000

\* C2: the dashboard's official balance is the sum of the IN amounts minus the
\* sum of the OUT amounts, its physical balance is the official balance minus
\* the sum of the TEMP_USE amounts; IN 100, OUT 30, TEMP_USE 20 give 70 and 50.
C2_DashboardBalances ==
  /\ officialInventoryValue(items) = OfficialOf(SetOf(items))
  /\ physicalInventoryValue(items)
       = Sub(officialInventoryValue(items), TypeSum(SetOf(items), "TEMP_USE"))
  /\ IsExampleLedger(items) =>
       /\ officialInventoryValue(items) = 70000
       /\ physicalInventoryValue(items) = 50000

C2_Witness == IsExampleLedger(items)

(***************************************************************************)
(* The balance of a code that handleImport compares an imported amount     *)
(* with; on a code none of whose amounts is NaN it is IN minus OUT.        *)
(***************************************************************************)
NaNFree(S) == \A i \in S : ~IsNaN(i.amount)

AppBalance(its, code) == MapGetOrZero(officialInventoryMap(its), code)

AppBalanceIsInMinusOut(its, code) ==
  NaNFree(OfCode(its, code)) => AppBalance(its, code) = OfficialOf(OfCode(its, code))

\* the status the ledger gives a code, from the last of its items
IsOpen(its, code) ==
  code \in CodesOf(its) /\ OpensAccount(Latest(its, code))

IsUsage(op) == op.op = "import" /\ op.mode = "CALCULATE_USAGE"

IsStock(op) == op.op = "import" /\ op.mode = "ADD_STOCK"

IsAudit(op) == op.op = "import" /\ op.mode = "AUDIT_SYSTEM"

\* the documents an import wrote
DocsOf(op) == UNION {op.lineDocs[k] : k \in 1..Len(op.lineDocs)}

(***************************************************************************)
(* C3 - audit results                                                      *)
(***************************************************************************)
\* the results an audit produced, against the balances of the ledger
AuditAgrees(op, mismatch(_)) ==
  LET results == op.auditResults[1]
  IN  /\ Len(op.auditResults) = 1
      /\ Len(results) = Len(op.imported)
      /\ \A k \in 1..Len(results) :
           LET line == op.imported[k]
               r == results[k]
           IN  /\ r.code = line.code
               /\ r.appBalance = AppBalance(items, line.code)
               /\ AppBalanceIsInMinusOut(items, line.code)
               /\ r.systemBalance = line.amount
               /\ r.difference = r.appBalance - line.amount
               /\ r.status = IF mismatch(r.difference) THEN "MISMATCH" ELSE "MATCH"

\* C3 as stated: each imported line of an audit yields one result, whose
\* difference is the app balance of the code minus the imported system
\* balance and whose status is MISMATCH exactly when |difference| > 0.05.
C3_MismatchAboveTolerance ==
  IsAudit(lastOp) => AuditAgrees(lastOp, LAMBDA d : MathAbs(d) > 50)

\* C3 amended: each imported line of an audit yields one result, whose
\* difference is the app balance of the code minus the imported system
\* balance and whose status is MATCH exactly when |difference| < 0.05 and
\* MISMATCH otherwise (a difference of exactly 0.05 is a MISMATCH).
C3_MatchBelowTolerance ==
  IsAudit(lastOp) => AuditAgrees(lastOp, LAMBDA d : ~(MathAbs(d) < 50))

\* an audit that met a difference of exactly 0.05, and one below it
C3_Witness ==
  /\ IsAudit(lastOp)
  /\ \E k \in 1..Len(lastOp.auditResults[1]) :
       LET r == lastOp.auditResults[1][k]
       IN  MathAbs(r.difference) = 50 /\ r.status = "MISMATCH"
  /\ \E k \in 1..Len(lastOp.auditResults[1]) :
       LET r == lastOp.auditResults[1][k]
       IN  MathAbs(r.difference) = 40 /\ r.status = "MATCH"

(***************************************************************************)
(* C4 - the posting of an ending-balance import                            *)
(***************************************************************************)
\* a posting against the difference d it was made for: its type from the
\* sign of d, its amount |d| rounded to hundredths and above zero
PostingAgrees(w, d) ==
  /\ d # 0
  /\ d > 0 => w.type = "OUT"
  /\ d < 0 => w.type = "IN"
  /\ w.amount > 0
  /\ w.amount % 10 = 0
  /\ MathAbs(w.amount - MathAbs(d)) <= 5

\* C4: in an ending-balance import, a line of an OPEN code that leads to a
\* posting posts OUT when diff = official balance - ending balance is above
\* zero, IN when it is below, and the amount is |diff| rounded to two
\* decimals, never negative and never zero.
C4_UsagePosting ==
  [][IsUsage(lastOp') =>
       \A k \in 1..Len(lastOp'.imported) : \A w \in lastOp'.lineDocs[k] :
         LET line == lastOp'.imported[k]
         IN  /\ IsOpen(items, line.code)
             /\ AppBalanceIsInMinusOut(items, line.code)
             /\ w.code = line.code
             /\ PostingAgrees(w, AppBalance(items, line.code) - line.amount)]_vars

\* one import that posted OUT 30 for a balance above the ending balance and
\* IN 0.02 for a balance 0.018 below it
C4_Witness ==
  /\ IsUsage(lastOp)
  /\ \E w \in DocsOf(lastOp) : w.type = "OUT" /\ w.amount = 30000
  /\ \E k \in 1..Len(lastOp.imported) : \E w \in lastOp.lineDocs[k] :
       /\ lastOp.imported[k].amount = 100018
       /\ w.type = "IN" /\ w.amount = 20

(***************************************************************************)
(* C5 - the tolerance of an ending-balance import                          *)
(***************************************************************************)
\* the lines of OPEN codes are skipped exactly on the differences skip(_) names
SkipsAgree(old, op, skip(_)) ==
  \A k \in 1..Len(op.imported) :
    LET line == op.imported[k]
    IN  IsOpen(old, line.code) =>
          /\ AppBalanceIsInMinusOut(old, line.code)
          /\ op.lineDocs[k] = {}
               <=> skip(MathAbs(AppBalance(old, line.code) - line.amount))

\* C5 as stated: the posting of a line of an OPEN code is skipped exactly
\* when |official balance - ending balance| < 0.01; 0.01 or more is posted.
C5_SkipBelowTolerance ==
  [][IsUsage(lastOp') => SkipsAgree(items, lastOp', LAMBDA a : a < 10)]_vars

\* C5 amended: the posting of a line of an OPEN code is skipped exactly when
\* |official balance - ending balance| <= 0.01; only a difference above 0.01
\* is posted (a difference of exactly 0.01 is skipped).
C5_PostAboveTolerance ==
  [][IsUsage(lastOp') => SkipsAgree(items, lastOp', LAMBDA a : ~(a > 10))]_vars

\* an import that skipped a line 0.01 off the balance and posted another line
C5_Witness ==
  /\ IsUsage(lastOp)
  /\ \E k \in 1..Len(lastOp.imported) :
       lastOp.imported[k].amount = 10 /\ lastOp.lineDocs[k] = {}
  /\ \E w \in DocsOf(lastOp) : w.type = "IN" /\ w.amount = 70000

(***************************************************************************)
(* C6 - the gate of an import                                              *)
(***************************************************************************)
\* C6: an import is gated by the status the codes have before it starts: a
\* Stock IN line writes an IN record exactly when its code is CLOSED or has
\* no items, an ending-balance line writes only when its code is OPEN, an
\* audit writes nothing, the inventory gains the written records and nothing
\* else, and when no line writes no batch is committed and the inventory is
\* unchanged.
C6_ImportGate ==
  [][lastOp'.op = "import" =>
       /\ \A k \in 1..Len(lastOp'.imported) :
            LET line == lastOp'.imported[k]
                docs == lastOp'.lineDocs[k]
            IN  /\ Cardinality(docs) <= 1
                /\ IsStock(lastOp') =>
                     /\ docs # {} <=> ~IsOpen(items, line.code)
                     /\ \A w \in docs : /\ w.type = "IN"
                                        /\ w.code = line.code
                                        /\ w.amount = line.amount
                /\ IsUsage(lastOp') => (docs # {} => IsOpen(items, line.code))
                /\ IsAudit(lastOp') => docs = {}
       /\ Len(lastOp'.lineDocs) = Len(lastOp'.imported)
       /\ DocsOf(lastOp') \cap inventory = {}
       /\ inventory' = inventory \cup DocsOf(lastOp')
       /\ lastOp'.committed <=> DocsOf(lastOp') # {}
       /\ DocsOf(lastOp') = {} => inventory' = inventory /\ items' = items]_vars

\* a Stock IN import whose two lines name one code: the code is CLOSED when
\* the import starts, and both lines are written
C6_Witness ==
  /\ IsStock(lastOp)
  /\ Len(lastOp.imported) = 2
  /\ lastOp.imported[1].code = lastOp.imported[2].code
  /\ lastOp.lineDocs[1] # {} /\ lastOp.lineDocs[2] # {}
  /\ Cardinality(inventory) = 3

(***************************************************************************)
(* C7 - a TEMP_USE transaction                                             *)
(***************************************************************************)
\* C7: recording a TEMP_USE transaction leaves the official balance (IN minus
\* OUT: the app balance of every code, and the dashboard's) as it was and
\* lowers the physical balance (of the code, and the dashboard's) by the
\* recorded amount.
C7_TempUseFrame ==
  [][lastOp'.op = "submit" =>
       /\ lastOp'.amount > 0
       /\ \A code \in ModelCodes :
            /\ AppBalance(items', code) = AppBalance(items, code)
            /\ OfficialOf(OfCode(items', code)) = OfficialOf(OfCode(items, code))
       /\ officialInventoryValue(items') = officialInventoryValue(items)
       /\ physicalInventoryValue(items')
            = Sub(physicalInventoryValue(items), lastOp'.amount)
       /\ FinalRunningBalance(items', lastOp'.code)
            = Sub(FinalRunningBalance(items, lastOp'.code), lastOp'.amount)
       /\ \A code \in ModelCodes \ {lastOp'.code} :
            FinalRunningBalance(items', code) = FinalRunningBalance(items, code)]_vars

\* a TEMP_USE of 20 recorded against an official balance of 100
C7_Witness ==
  /\ lastOp.op = "submit"
  /\ lastOp.amount = 20000
  /\ officialInventoryValue(items) = 100000
  /\ physicalInventoryValue(items) = 80000

(***************************************************************************)
(* C8 - the transaction report                                             *)
(***************************************************************************)
\* the rows of the report, as a set
ReportRows(its) ==
  LET rows == calculatedTransactions(its)
  IN  {rows[k] : k \in 1..Len(rows)}

\* C8: the report takes the items of a code in ascending createdAt order;
\* every TEMP_USE item has exactly one row, whose balanceBefore is IN minus
\* OUT minus TEMP_USE over the items of its code that precede it and whose
\* balanceAfter is balanceBefore minus the item's amount; there are as many
\* rows as TEMP_USE items.
C8_ReportRows ==
  LET temps == {i \in SetOf(items) : i.type = "TEMP_USE"}
  IN  /\ Len(calculatedTransactions(items)) = Cardinality(temps)
      /\ \A i \in temps :
           LET before == PhysicalOf({j \in OfCode(items, i.code) :
                                       j # i /\ Precedes(items, j, i)})
           IN  \E r \in ReportRows(items) :
                 /\ r.id = i.id
                 /\ r.code = i.code
                 /\ r.amount = i.amount
                 /\ r.balanceBefore = before
                 /\ r.balanceAfter = Sub(before, i.amount)

\* a TEMP_USE of 20 after IN 100 and OUT 30 of its code, and a TEMP_USE that
\* the list holds before an older item of its code
C8_Witness ==
  /\ \E r \in ReportRows(items) : r.balanceBefore = 70000 /\ r.balanceAfter = 50000
  /\ \E i, j \in SetOf(items) :
       /\ i.type = "TEMP_USE" /\ j.code = i.code
       /\ PosIn(items, i) < PosIn(items, j) /\ j.createdAt < i.createdAt

(***************************************************************************)
(* C9 - the three reconciliations                                          *)
(***************************************************************************)
\* the sum of a function's values
RECURSIVE SumFn(_)
SumFn(f) ==
  IF DOMAIN f = {} THEN 0
  ELSE LET c == CHOOSE d \in DOMAIN f : TRUE
       IN  Add(f[c], SumFn([d \in DOMAIN f \ {c} |-> f[d]]))

\* C9: on every list of items, the audit's app balances summed over the codes
\* are the dashboard's official balance, the report's final running balances
\* summed over the codes are the dashboard's physical balance, and the
\* report's Total Pending Cost is the dashboard's TEMP_USE total.
C9_ReconciliationsAgree ==
  /\ SumFn([code \in CodesOf(items) |-> AppBalance(items, code)])
       = officialInventoryValue(items)
  /\ SumFn([code \in CodesOf(items) |-> FinalRunningBalance(items, code)])
       = physicalInventoryValue(items)
  /\ totalUsage(items) = totalTemp(items)

(***************************************************************************)
(* C10 - malformed lines of a manual import                                *)
(***************************************************************************)
\* a token that writes a number: an optional sign, digits, at most one point
IsNumberToken(tok) ==
  LET body == IF Len(tok) >= 1 /\ tok[1] \in {"+", "-"} THEN Tail(tok) ELSE tok
  IN  /\ \A k \in 1..Len(body) : body[k] \in Digits \cup {"."}
      /\ \E k \in 1..Len(body) : body[k] \in Digits
      /\ Cardinality({k \in 1..Len(body) : body[k] = "."}) <= 1

\* the token a mode reads the amount from, when the line has its fields
RequiredFields(mode) ==
  IF mode = "ADD_STOCK" THEN 5 ELSE IF mode = "CALCULATE_USAGE" THEN 4 ELSE 3

AmountToken(mode, parts) ==
  IF mode = "ADD_STOCK" THEN parts[5] ELSE parts[Len(parts)]

\* a line that has the fields of its mode and a number for its amount
WellFormed(mode, parts) ==
  /\ Len(parts) >= RequiredFields(mode)
  /\ IsNumberToken(AmountToken(mode, parts))

\* C10: a manual import skips every malformed line (a line without the
\* fields of its mode, or whose amount is no number) and imports the
\* well-formed lines of the paste: the imported records are those of the
\* well-formed lines, in order.
C10_MalformedSkipped ==
  lastOp.op \in {"import", "unparsed"} =>
    LET wellFormed == SelectSeq(lastOp.text,
                                LAMBDA parts : WellFormed(lastOp.mode, parts))
    IN  /\ Len(lastOp.imported) = Len(wellFormed)
        /\ \A k \in 1..Len(lastOp.imported) :
             /\ ~IsNaN(lastOp.imported[k].amount)
             /\ k <= Len(wellFormed) =>
                  lastOp.imported[k].amount
                    = ParseFloat(AmountToken(lastOp.mode, wellFormed[k]))

(***************************************************************************)
(* C11 - a confirmed restore                                               *)
(***************************************************************************)
\* C11: a confirmed restore ends with every record of every collection of
\* the file in the store, whatever the size of a collection, having handed
\* no more than 450 operations to a commit, and with the notification
\* 'Restore Complete'.
C11_RestoreWritesAll ==
  [][/\ lastOp'.op = "uploadCollection" => lastOp'.batch <= ChunkSize
     /\ job.kind = "restore" /\ job'.kind = "idle" =>
          /\ \A c \in Colls : FileData(job.file, c) \subseteq cloud'[c]
          /\ lastOp'.notification = <<"Restore Complete! Data is live.">>]_vars

(***************************************************************************)
(* C12 - the per-batch operation limit                                     *)
(***************************************************************************)
\* C12: no batch that restore, reset or the seeding of the default employees
\* hands to commit() holds more than 500 operations.
C12_BatchWithinLimit ==
  lastOp.op \in {"uploadCollection", "clearColl", "seed"} =>
    lastOp.batch <= BatchLimit

(***************************************************************************)
(* C13 - a declined confirmation                                           *)
(***************************************************************************)
\* C13: when the user declines the confirmation of reset or of restore, no
\* document of any collection is written or deleted, no handler is left
\* running, and neither the view nor the notification is set.
C13_DeclineChangesNothing ==
  [][lastOp'.declined =>
       /\ cloud' = cloud
       /\ inventory' = inventory
       /\ job' = job /\ seeding' = seeding
       /\ lastOp'.notification = <<>>
       /\ lastOp'.view = Null]_vars

\* a reset declined over a store that holds documents, after an export
C13_Witness ==
  /\ lastOp.op = "reset declined"
  /\ lastOp.declined
  /\ backup # NoBackup
  /\ \A c \in Colls : cloud[c] # {}

(***************************************************************************)
(* C15 - backup and restore round trip                                     *)
(***************************************************************************)
\* C15: after an export, a confirmed reset and the restore of the exported
\* file, with every callback run to its end, the inventory, employees,
\* schedule and notes collections hold exactly the documents they held at
\* the export.
C15_RoundTrip ==
  trip = "restored" /\ job = Idle /\ seeding = "idle" =>
    \A c \in {"inventory", "employees", "schedule", "notes"} :
      cloud[c] = backup[c]

(***************************************************************************)
(* C19 - a confirmed reset                                                 *)
(***************************************************************************)
\* C19: a confirmed reset ends with every document it read of the inventory,
\* schedule, notes and employees collections deleted, and with the users
\* collection as it was, the logged-in account in it.
C19_ResetClears ==
  [][job.kind = "reset" /\ job'.kind = "idle" =>
       /\ Len(job.read) = Len(ResetOrder)
       /\ \A k \in 1..Len(job.read) : cloud'[ResetOrder[k]] \cap job.read[k] = {}
       /\ cloud'["users"] = job.users
       /\ job.users # {}]_vars

(***************************************************************************)
(* The assistant: ImportModal.handleSmartParse with                        *)
(* parseStockDataWithGemini, and App.handleGenerateInsights with           *)
(* generateDataInsights.  A handler that awaits the service takes one step *)
(* up to the await and one from it; what the service answers, or that it   *)
(* fails, is the environment's choice.                                     *)
(***************************************************************************)
\* JSON null in the amount of an answered record
JsonNull == -999999998

\* code.replace(/-$/, ''): a hyphen that ends the code
RemoveLastHyphen(tok) ==
  IF tok # <<>> /\ tok[Len(tok)] = "-" THEN SubSeq(tok, 1, Len(tok) - 1) ELSE tok

\* String.prototype.trim
RECURSIVE Trim(_)
Trim(tok) ==
  IF tok = <<>> THEN <<>>
  ELSE IF Head(tok) = " " THEN Trim(Tail(tok))
  ELSE IF tok[Len(tok)] = " " THEN Trim(SubSeq(tok, 1, Len(tok) - 1))
  ELSE tok

\* ImportModal.processParsedData
processParsedData(data) ==
  [k \in 1..Len(data) |->
     [data[k] EXCEPT
        !.code = Trim(RemoveLastHyphen(data[k].code)),
        !.amount = IF data[k].amount = JsonNull \/ IsNaN(data[k].amount)
                   THEN 0 ELSE data[k].amount]]

\* what the textarea is filled with
AITexts ==
  { <<>>,
    << <<tDate, C1, tProv, tPhone, <<"1", "0", "0">> >> >>,
    << <<tIdx, <<"C", "1", "-">>, tPhone, tProv, <<"0", ".", "0", "5">> >> >> }

\* what the service answers when it answers: the parsed array
AIAnswers ==
  { <<>>,
    <<[code |-> <<"C", "1", "-", " ">>, provider |-> tProv,
       phoneNumber |-> tPhone, amount |-> 100000]>>,
    <<[code |-> C1, provider |-> tProv, phoneNumber |-> tPhone,
       amount |-> JsonNull]>> }

\* textarea onChange
setInputText ==
  /\ isImportModalOpen
  /\ \E text \in AITexts \ {inputText} : inputText' = text
  /\ lastOp' = Op("none")
  /\ UNCHANGED <<ledgerVars, aiRest, loadingInsights, isProcessing, aiCall>>

\* handleSmartParse up to the await: setIsProcessing(true), setError(null)
handleSmartParse ==
  /\ isImportModalOpen
  /\ inputText # <<>>
  /\ ~isProcessing
  /\ isProcessing' = TRUE
  /\ \E mode \in ImportModes :
       /\ aiCall' = [pending |-> TRUE, text |-> inputText, mode |-> mode]
       /\ lastOp' = [Op("smart parse") EXCEPT !.mode = mode, !.text = inputText]
  /\ UNCHANGED <<ledgerVars, aiRest, loadingInsights, inputText>>

\* seeded fault: no finally block, the flag is reset on success only
SmartParseFailedBusy ==
  /\ lastOp' = [Op("smart parse failed") EXCEPT
                  !.mode = aiCall.mode, !.text = aiCall.text,
                  !.error = "AI Parsing failed. Please check your API key or input format."]
  /\ UNCHANGED <<ledgerVars, inputText, isProcessing>>

\* the catch and finally blocks of handleSmartParse
SmartParseFailed ==
  /\ lastOp' = [Op("smart parse failed") EXCEPT
                  !.mode = aiCall.mode, !.text = aiCall.text,
                  !.error = "AI Parsing failed. Please check your API key or input format."]
  /\ isProcessing' = FALSE
  /\ UNCHANGED <<ledgerVars, inputText>>

\* handleSmartParse from the await: parseStockDataWithGemini answers or throws
handleSmartParseResumes ==
  /\ aiCall # NoCall
  /\ aiCall' = NoCall
  /\ \/ SmartParseFailed
     \/ \E rawResult \in AIAnswers :
          /\ handleImport(aiCall.text, processParsedData(rawResult), aiCall.mode)
          /\ isImportModalOpen' = FALSE
          /\ inputText' = <<>>
          /\ isProcessing' = FALSE
          /\ UNCHANGED now
  /\ UNCHANGED <<aiRest, loadingInsights>>

\* handleGenerateInsights up to the await
handleGenerateInsights ==
  /\ ~isImportModalOpen
  /\ insights = Null
  /\ ~loadingInsights
  /\ IF Len(items) = 0
     THEN /\ lastOp' = Op("no items")
          /\ UNCHANGED loadingInsights
     ELSE /\ lastOp' = Op("insights asked")
          /\ loadingInsights' = TRUE
  /\ UNCHANGED <<ledgerVars, aiRest, inputText, isProcessing, aiCall>>

\* generateDataInsights catches the failure and answers with a fixed text
InsightsFailed ==
  /\ insights' = "Could not generate insights at this time."
  /\ loadingInsights' = FALSE

\* handleGenerateInsights from the await: setInsights, setLoadingInsights(false)
generateDataInsights ==
  /\ loadingInsights
  /\ \/ /\ InsightsFailed
        /\ lastOp' = Op("insights failed")
     \/ /\ \E text \in {"summary", "No insights generated."} : insights' = text
        /\ loadingInsights' = FALSE
        /\ lastOp' = Op("insights")
  /\ UNCHANGED <<inventory, items, now, isImportModalOpen>>
  /\ UNCHANGED <<aiRest, inputText, isProcessing, aiCall>>

AINext ==
  \/ OpenImportModal
  \/ CloseImportModal
  \/ setInputText
  \/ handleSmartParse
  \/ handleSmartParseResumes
  \/ handleGenerateInsights
  \/ generateDataInsights

SpecAI == Init /\ [][AINext]_vars

(***************************************************************************)
(* C14 - a failing assistant                                               *)
(***************************************************************************)
\* C14: when the smart import's request fails, onImport is not called and
\* nothing is written, the modal stays as open as it was with its text
\* intact, the error is shown and isProcessing is false again; when the
\* insights request fails, insights is the fixed fallback text and
\* loadingInsights is false again.
C14_AIFailure ==
  [][/\ lastOp'.op = "smart parse failed" =>
          /\ inventory' = inventory /\ items' = items
          /\ insights' = insights
          /\ lastOp'.imported = <<>> /\ ~lastOp'.committed
          /\ lastOp'.notification = <<>> /\ lastOp'.auditResults = <<>>
          /\ isImportModalOpen' = isImportModalOpen
          /\ inputText' = inputText
          /\ isProcessing' = FALSE
          /\ lastOp'.error = "AI Parsing failed. Please check your API key or input format."
     /\ lastOp'.op = "insights failed" =>
          /\ insights' = "Could not generate insights at this time."
          /\ loadingInsights' = FALSE
          /\ inventory' = inventory]_vars

\* the smart import has just failed in the open modal, over the text typed,
\* after an insights request had failed too
C14_Witness ==
  /\ lastOp.op = "smart parse failed"
  /\ isImportModalOpen
  /\ inputText # <<>>
  /\ ~isProcessing
  /\ insights = "Could not generate insights at this time."
  /\ ~loadingInsights

(***************************************************************************)
(* C18 - an audit import writes nothing                                    *)
(***************************************************************************)
\* what every audit import does and leaves alone
AuditFrame ==
  /\ inventory' = inventory /\ items' = items
  /\ cloud' = cloud
  /\ ~lastOp'.committed
  /\ lastOp'.auditResults =
       <<AuditResults(lastOp'.imported, officialInventoryMap(items))>>
  /\ lastOp'.view = "reports"
  /\ insights' = Null
  /\ now' = now /\ loadingInsights' = loadingInsights

IsAuditImport == lastOp'.op = "import" /\ lastOp'.mode = "AUDIT_SYSTEM"

\* C18 (amended): an import in the AUDIT_SYSTEM mode writes no document;
\* handleImport sets the audit results, switches the view to reports, clears
\* the insights, and sets the notification 'Audit generated (not saved to
\* DB).'.
C18_AuditFrame ==
  [][IsAuditImport =>
       /\ AuditFrame
       /\ lastOp'.notification = <<"Audit generated (not saved to DB).">>]_vars

\* C18 (as stated): the audit results, the view and the insights are the only
\* effects of an audit import: the notification is not set.
C18_AuditOnlyEffects ==
  [][IsAuditImport => AuditFrame /\ lastOp'.notification = <<>>]_vars

\* an audit of one row over a ledger that holds items, answered by the
\* assistant while an insights request is under way
C18_Witness ==
  /\ lastOp.op = "import"
  /\ lastOp.mode = "AUDIT_SYSTEM"
  /\ Len(lastOp.imported) = 1
  /\ inventory # {}
  /\ loadingInsights

(***************************************************************************)
(* The team schedule: ScheduleView.handleShiftChange and                   *)
(* App.handleUpdateScheduleDay, from two browsers.  setDoc shows its       *)
(* document to the writing client at once and reaches the store later; a   *)
(* client's writes reach the store in the order they were made.            *)
(***************************************************************************)
\* how many shifts the clients change in all
MaxShiftChanges == 3

Employees == {"e1", "e2"}

Shifts == {"Morning", "Night"}

Day == "2026-01-05"

\* employees.find(e => e.id === empId)?.name || 'Unknown'
EmpName(empId) == IF empId = "e1" THEN "Ana" ELSE "Unknown"

\* schedule.find(d => d.day === dateStr), as the list of the days found
FindDay(sched, dateStr) == SelectSeq(sched, LAMBDA d : d.day = dateStr)

\* the shift of an employee in a list of days, Null when there is none
ShiftOf(sched, empId) ==
  LET found == IF sched = <<>> THEN <<>>
               ELSE SelectSeq(sched[1].assignments, LAMBDA a : a.employeeId = empId)
  IN  IF found = <<>> THEN Null ELSE found[1].shift

\* the document handleShiftChange hands to onUpdateSchedule
ShiftChangePayload(sched, dateStr, empId, newShift) ==
  LET found == FindDay(sched, dateStr)
      entry == [employeeId |-> empId, employeeName |-> EmpName(empId),
                shift |-> newShift]
  IN  IF found = <<>>
      THEN [day |-> dateStr, assignments |-> <<entry>>]
      ELSE LET dayData == found[1]
               hasAssignment == \E k \in 1..Len(dayData.assignments) :
                                  dayData.assignments[k].employeeId = empId
           IN  IF hasAssignment
               THEN [dayData EXCEPT !.assignments =
                       [k \in 1..Len(dayData.assignments) |->
                          IF dayData.assignments[k].employeeId = empId
                          THEN [dayData.assignments[k] EXCEPT !.shift = newShift]
                          ELSE dayData.assignments[k]]]
               ELSE [dayData EXCEPT !.assignments = Append(dayData.assignments, entry)]

\* handleShiftChange, then handleUpdateScheduleDay up to the await: the
\* client's own listener shows the written document at once
handleShiftChange ==
  \E c \in Clients, empId \in Employees, newShift \in Shifts :
    /\ Len(applied) + SumFn([d \in Clients |-> Len(outbox[d])]) < MaxShiftChanges
    /\ LET payload == ShiftChangePayload(schedule[c], Day, empId, newShift)
           write == [client |-> c, employeeId |-> empId, shift |-> newShift,
                     base |-> schedule[c], payload |-> payload]
       IN  /\ outbox' = [outbox EXCEPT ![c] = Append(@, write)]
           /\ schedule' = [schedule EXCEPT ![c] = <<payload>>]
    /\ lastOp' = Op("handleShiftChange")
    /\ UNCHANGED <<scheduleColl, applied, teamRest>>

\* seeded fault: setDoc with merge semantics on the assignments
setDocMerged(coll, write) ==
  <<ShiftChangePayload(coll, Day, write.employeeId, write.shift)>>

\* setDoc(doc(db, 'schedule', day), daySchedule): the document is replaced
setDoc(coll, write) == <<write.payload>>

\* the store applies the oldest write of a client
handleUpdateScheduleDay ==
  \E c \in Clients :
    /\ outbox[c] # <<>>
    /\ scheduleColl' = setDoc(scheduleColl, Head(outbox[c]))
    /\ applied' = Append(applied, Head(outbox[c]))
    /\ outbox' = [outbox EXCEPT ![c] = Tail(@)]
    /\ lastOp' = Op("setDoc")
    /\ UNCHANGED <<schedule, teamRest>>

\* unsubSchedule: a client with nothing left to send is shown the store
unsubSchedule ==
  \E c \in Clients :
    /\ outbox[c] = <<>>
    /\ schedule[c] # scheduleColl
    /\ schedule' = [schedule EXCEPT ![c] = scheduleColl]
    /\ lastOp' = Op("unsubSchedule")
    /\ UNCHANGED <<scheduleColl, outbox, applied, teamRest>>

TeamNext ==
  \/ handleShiftChange
  \/ handleUpdateScheduleDay
  \/ unsubSchedule

SpecTeam == Init /\ [][TeamNext]_vars

(***************************************************************************)
(* C16 - concurrent edits of one day                                       *)
(***************************************************************************)
\* the last two writes the store applied came from two clients that started
\* from the same snapshot and changed the shifts of two employees
TwoClientsOneDay ==
  /\ Len(applied) >= 2
  /\ LET first == applied[Len(applied) - 1]
         last == applied[Len(applied)]
     IN  /\ first.client # last.client
         /\ first.base = last.base
         /\ first.employeeId # last.employeeId
         /\ ShiftOf(first.base, first.employeeId) # first.shift

\* C16: the stored day is always the whole payload of the write applied
\* last; when two clients that started from the same snapshot change the
\* shifts of two employees of one day, the store ends with the later
\* payload, in which the earlier client's employee has the shift of the
\* common snapshot and not the changed one.
C16_LastWriteWins ==
  /\ applied # <<>> => scheduleColl = <<applied[Len(applied)].payload>>
  /\ TwoClientsOneDay =>
       LET first == applied[Len(applied) - 1]
       IN  /\ ShiftOf(scheduleColl, first.employeeId)
                = ShiftOf(first.base, first.employeeId)
           /\ ShiftOf(scheduleColl, first.employeeId) # first.shift

\* two clients changed two employees of a day that both saw planned
C16_Witness ==
  /\ TwoClientsOneDay
  /\ applied[Len(applied)].base # <<>>
  /\ outbox = [c \in Clients |-> <<>>]

(***************************************************************************)
(* Grouping by code: the forEach of App's status computation and of        *)
(* TransactionReport.calculatedTransactions.  Both collect the items in an *)
(* object literal used as a map, Record<string, StockItem[]> = {}; a read  *)
(* of a key the object does not own answers with what Object.prototype     *)
(* holds under that name.                                                  *)
(***************************************************************************)
tConstructor == <<"c", "o", "n", "s", "t", "r", "u", "c", "t", "o", "r">>

\* names every object literal inherits a value for
ProtoKeys == {tConstructor, <<"_", "_", "p", "r", "o", "t", "o", "_", "_">>}

\* the codes of the documents a snapshot may hold: the store takes what the
\* other clients and a restored file write
GroupCodes == {C1, <<"c", "1">>, C2, tConstructor}

\* one round of the forEach:
\*   if (!grouped[i.code]) grouped[i.code] = [];  grouped[i.code].push(i);
GroupStep(acc, item) ==
  IF acc.threw THEN acc
  ELSE IF item.code \in DOMAIN acc.groups
  THEN [acc EXCEPT !.groups[item.code] = Append(@, item)]
  ELSE IF item.code \in ProtoKeys
  THEN [acc EXCEPT !.threw = TRUE]     \* TypeError: .push is not a function
  ELSE [acc EXCEPT !.groups =
          [c \in DOMAIN acc.groups \cup {item.code} |->
             IF c = item.code THEN <<item>> ELSE acc.groups[c]]]

\* items.forEach(...) over the list, from an empty object
RECURSIVE GroupByCode(_)
GroupByCode(its) ==
  IF its = <<>> THEN NoGroups
  ELSE GroupStep(GroupByCode(SubSeq(its, 1, Len(its) - 1)), its[Len(its)])

\* setItems, then the render: both useMemo blocks run over the new list
RenderGroups ==
  /\ unsubInventory(inventory')
  /\ transactionsByCode' = GroupByCode(DocsById(inventory'))
  /\ grouped' = GroupByCode(DocsById(inventory'))

\* the listener delivers a snapshot with one more document
DocAdded ==
  /\ \E id \in FreshIds, code \in GroupCodes, type \in {"IN", "OUT"} :
       inventory' = inventory \cup
         {[id |-> id, code |-> code, amount |-> 1000, type |-> type,
           createdAt |-> now]}
  /\ RenderGroups
  /\ lastOp' = Op("added")
  /\ UNCHANGED <<now, isImportModalOpen, insights, groupRest>>

\* the listener delivers a snapshot with one document less
DocRemoved ==
  /\ \E d \in inventory : inventory' = inventory \ {d}
  /\ RenderGroups
  /\ lastOp' = Op("removed")
  /\ UNCHANGED <<now, isImportModalOpen, insights, groupRest>>

GroupNext ==
  \/ DocAdded
  \/ DocRemoved

SpecGroups == Init /\ [][GroupNext]_vars

(***************************************************************************)
(* C17 - every item in exactly one group                                   *)
(***************************************************************************)
\* the groups hold every item of the list once, under its own code
Partitions(result, its) ==
  /\ ~result.threw
  /\ \A k \in 1..Len(its) :
       /\ its[k].code \in DOMAIN result.groups
       /\ \A c \in DOMAIN result.groups :
            (\E j \in 1..Len(result.groups[c]) : result.groups[c][j] = its[k])
              <=> c = its[k].code
  /\ SumFn([c \in DOMAIN result.groups |-> Len(result.groups[c])]) = Len(its)

\* C17: in the status computation and in the report, every item of the list
\* is in exactly one group, the group of its exact code string, and the
\* sizes of the groups add up to the number of items.
C17_OneGroupPerItem ==
  /\ Partitions(transactionsByCode, items)
  /\ Partitions(grouped, items)

\* the same, for lists without a code that Object.prototype has a value for
C17_OrdinaryCodes ==
  (\A k \in 1..Len(items) : items[k].code \notin ProtoKeys) =>
    C17_OneGroupPerItem

(***************************************************************************)
(* The default account: the users subscription and createDefaultAdmin, in  *)
(* every browser that has the application open.  getDocs is answered by    *)
(* the store with the documents it holds at that moment; the client goes   *)
(* on with that answer later, and its setDoc reaches the store later       *)
(* still.  A client's own pending write shows in what it reads.            *)
(***************************************************************************)
\* defaultAdmin: the id is a fresh uuid, one per call
tGjweng == <<"g", "j", "w", "e", "n", "g">>

defaultAdmin(c) ==
  [id |-> c, username |-> tGjweng, role |-> "admin", permissions |-> {}]

\* the write of a client that the store has not applied yet
PendingOf(c) == IF adminPc[c] = "setDoc" THEN {defaultAdmin(c)} ELSE {}

\* snapshot.docs as a client is shown them
UsersSeenBy(c) == usersColl \cup PendingOf(c)

\* unsubUsers: setUsers(userList); if (snapshot.empty) createDefaultAdmin()
unsubUsers ==
  \E c \in Browsers :
    /\ adminPc[c] = "start" \/ users[c] # UsersSeenBy(c)
    /\ users' = [users EXCEPT ![c] = UsersSeenBy(c)]
    /\ adminPc' = [adminPc EXCEPT ![c] =
                     IF UsersSeenBy(c) = {} THEN "getDocs"
                     ELSE IF @ = "start" THEN "idle" ELSE @]
    /\ lastOp' = Op("unsubUsers")
    /\ UNCHANGED <<usersColl, adminRest>>

\* the store answers await getDocs(collection(db, 'users'))
getDocsUsers ==
  \E c \in Browsers :
    /\ adminPc[c] = "getDocs"
    /\ adminPc' = [adminPc EXCEPT ![c] =
                     IF UsersSeenBy(c) = {} THEN "empty" ELSE "not empty"]
    /\ lastOp' = Op("getDocs")
    /\ UNCHANGED <<usersColl, users, adminRest>>

\* createDefaultAdmin from the await: if (!snapshot.empty) return; setDoc(...)
createDefaultAdmin ==
  \E c \in Browsers :
    /\ adminPc[c] \in {"empty", "not empty"}
    /\ adminPc' = [adminPc EXCEPT ![c] =
                     IF @ = "empty" THEN "setDoc" ELSE "idle"]
    /\ lastOp' = Op("createDefaultAdmin")
    /\ UNCHANGED <<usersColl, users, adminRest>>

\* the store applies setDoc(doc(db, 'users', defaultAdmin.id), defaultAdmin)
setDocAdmin ==
  \E c \in Browsers :
    /\ adminPc[c] = "setDoc"
    /\ usersColl' = usersColl \cup {defaultAdmin(c)}
    /\ adminPc' = [adminPc EXCEPT ![c] = "idle"]
    /\ lastOp' = Op("setDoc")
    /\ UNCHANGED <<users, adminRest>>

AdminNext ==
  \/ unsubUsers
  \/ getDocsUsers
  \/ createDefaultAdmin
  \/ setDocAdmin

SpecAdmin == Init /\ [][AdminNext]_vars

(***************************************************************************)
(* C20 - one default account                                               *)
(***************************************************************************)
\* C20: under every interleaving of the users subscription callbacks and
\* createDefaultAdmin the default account is written at most once: the
\* users collection never holds two 'gjweng' accounts.
C20_OneDefaultAdmin ==
  Cardinality({u \in usersColl : u.username = tGjweng}) <= 1

\* the same with one browser on the new database
C20_OneBrowser ==
  (\A c \in Browsers \ {"a"} : adminPc[c] = "start") => C20_OneDefaultAdmin

(***************************************************************************)
(* C26 - the balance after an ending-balance import                        *)
(***************************************************************************)
\* the last line of an import that names the code of line k
LastLineOf(imported, k) ==
  CHOOSE j \in 1..Len(imported) :
    /\ imported[j].code = imported[k].code
    /\ \A i \in 1..Len(imported) : imported[i].code = imported[k].code => i <= j

\* the official balance of every code that was OPEN and is named by a line
\* among `lines` is within 0.01 of the ending balance of the last line that
\* names it
EndingBalancesReached(op, lines) ==
  \A k \in lines :
    LET code == op.imported[k].code
        ending == op.imported[LastLineOf(op.imported, k)].amount
    IN  (IsOpen(items, code) /\ NaNFree(OfCode(items', code))) =>
          MathAbs(OfficialOf(OfCode(items', code)) - ending) <= UsageTolerance

\* C26: after an ending-balance import has committed, the official balance
\* (IN minus OUT) of every code that was OPEN and is named by an imported
\* line is within 0.01 of the ending balance on the last imported line of
\* that code, also when several lines name the code.
C26_EndingBalanceReached ==
  [][IsUsage(lastOp') /\ lastOp'.committed =>
       EndingBalancesReached(lastOp', 1..Len(lastOp'.imported))]_vars

\* the same for the codes that one line of the import names
C26_CodesNamedOnce ==
  [][IsUsage(lastOp') /\ lastOp'.committed =>
       EndingBalancesReached(lastOp',
         {k \in 1..Len(lastOp'.imported) :
            \A j \in 1..Len(lastOp'.imported) :
              lastOp'.imported[j].code = lastOp'.imported[k].code => j = k})]_vars

(***************************************************************************)
(* Sessions and accounts: login, the Security Check effect, the sidebar,   *)
(* the mobile menu, user management and the delete buttons, in two         *)
(* browsers.  An effect runs after the render that changed what it depends *)
(* on and before the next event, so a handler's step ends with the effects *)
(* it sets off.  A client's own write shows in its lists at once; the      *)
(* other client hears of it when its listener is called.                   *)
(***************************************************************************)
\* how many accounts the store ever holds ids for
MaxUsers == 3

\* the browsers that are used
AuthClients == {"a", "b"}

tBob == <<"b", "o", "b">>

tBOB == <<"B", "o", "b">>

ToLowerChar(ch) == IF ch = "B" THEN "b" ELSE ch

\* String.prototype.toLowerCase
ToLowerCase(tok) == [k \in 1..Len(tok) |-> ToLowerChar(tok[k])]

\* Sidebar.navItems, the ones that are clicked
navItems ==
  { [id |-> "dashboard", adminOnly |-> FALSE],
    [id |-> "list", adminOnly |-> FALSE],
    [id |-> "transaction_report", adminOnly |-> FALSE],
    [id |-> "users", adminOnly |-> TRUE] }

\* the buttons of the mobile menu that set a view, the ones that are clicked
MobileViews == {"dashboard", "list", "schedule"}

\* what the Create New Account form is filled with: the staff role with the
\* default pages, and with two other pages
NewAccounts ==
  { [username |-> tBob, role |-> "staff",
     selectedPermissions |-> {"dashboard", "list", "schedule", "notes"}],
    [username |-> tBOB, role |-> "staff",
     selectedPermissions |-> {"dashboard", "transaction_report"}] }

\* the users arrays of the files that are restored: the first account as a
\* staff member who is allowed the users page
UserFiles ==
  { {[id |-> 1, username |-> tGjweng, role |-> "staff",
      permissions |-> {"users", "list"}]} }

\* the ledger: a TEMP_USE record that the account 'Bob' created
SessionItems ==
  { [id |-> 1, code |-> C1, amount |-> 20000, type |-> "TEMP_USE",
     createdAt |-> 0, createdBy |-> tBOB] }

\* the default account exists, every client has heard of it, nobody is in
SessionsInit ==
  /\ inventory = SessionItems
  /\ items = DocsById(SessionItems)
  /\ now = 0
  /\ isImportModalOpen = FALSE
  /\ insights = Null
  /\ CloudInit /\ AIInit /\ TeamInit /\ GroupInit
  /\ usersColl = {defaultAdmin(1)}
  /\ users = [c \in Browsers |-> {defaultAdmin(1)}]
  /\ adminPc = [c \in Browsers |-> "idle"]
  /\ SessionInit
  /\ lastOp = [op |-> "init", client |-> Null, asked |-> Null,
               notification |-> <<>>, error |-> Null, item |-> <<>>]

\* lastOp of a step of a session
SessionOp(name, c) ==
  [op |-> name, client |-> c, asked |-> Null, notification |-> <<>>,
   error |-> Null, item |-> <<>>]

\* currentUser.permissions || []
Allowed(user) == user.permissions

\* seeded fault: the check looks at the pages of the sidebar only
SecurityCheckSidebarOnly(user, v) ==
  IF user # NoUser /\ user.role # "admin" /\ v # "dashboard"
     /\ v \notin Allowed(user) /\ v \notin MobileViews
  THEN "dashboard" ELSE v

\* the Security Check effect: the view it leaves
SecurityCheck(user, v) ==
  IF user # NoUser /\ user.role # "admin" /\ v # "dashboard"
     /\ v \notin Allowed(user)
  THEN "dashboard" ELSE v

\* a handler of client c ends with this user and this view; the effect runs
Render(c, user, v, op) ==
  /\ currentUser' = [currentUser EXCEPT ![c] = user]
  /\ view' = [view EXCEPT ![c] = SecurityCheck(user, v)]
  /\ lastOp' = [op EXCEPT
       !.asked = v,
       !.notification =
          IF SecurityCheck(user, v) # v
          THEN <<"Access Denied: You do not have permission for that page.">>
          ELSE @]

\* the restoreSession effect: the account of the session's id (the id that
\* handleLogin stored and handleLogout removes) as the new list has it; an id
\* that is not in the list leaves the user as it is
foundUser(list, user) ==
  IF list # {} /\ user # NoUser /\ \E u \in list : u.id = user.id
  THEN CHOOSE u \in list : u.id = user.id
  ELSE user

\* unsubUsers, then restoreSession: the listener hands the store's accounts
\* to a client
restoreSession ==
  \E c \in AuthClients :
    /\ users[c] # usersColl
    /\ users' = [users EXCEPT ![c] = usersColl]
    /\ Render(c, foundUser(usersColl, currentUser[c]), view[c],
              SessionOp("restoreSession", c))
    /\ UNCHANGED <<usersColl, adminPc, ledgerVars, sessionRest>>

\* users.find(u => u.username.toLowerCase() === username.toLowerCase()):
\* the first of the list, which is in the order of the document ids
FindByUsername(list, username) ==
  LET matches == {u \in list : ToLowerCase(u.username) = ToLowerCase(username)}
  IN  IF matches = {} THEN {}
      ELSE {CHOOSE u \in matches : \A w \in matches : u.id <= w.id}

\* LoginScreen.handleLogin, then App.handleLogin
handleLogin ==
  \E c \in AuthClients, username \in {tGjweng, tBob}, passwordOk \in BOOLEAN :
    /\ currentUser[c] = NoUser
    /\ LET user == FindByUsername(users[c], username)
       IN  IF user # {} /\ passwordOk
           THEN Render(c, CHOOSE u \in user : TRUE, view[c], SessionOp("handleLogin", c))
           ELSE /\ lastOp' = [SessionOp("handleLogin", c) EXCEPT
                                !.error = "Invalid username or password."]
                /\ UNCHANGED sessionVars
    /\ UNCHANGED <<adminVars, ledgerVars, sessionRest>>

\* App.handleLogout
handleLogout ==
  \E c \in AuthClients :
    /\ currentUser[c] # NoUser
    /\ Render(c, NoUser, "dashboard", SessionOp("handleLogout", c))
    /\ UNCHANGED <<adminVars, ledgerVars, sessionRest>>

\* Sidebar.canAccess
canAccess(user, itemId, adminOnly) ==
  IF user = NoUser THEN FALSE
  ELSE IF user.role = "admin" THEN TRUE
  ELSE IF adminOnly THEN FALSE
  ELSE itemId \in user.permissions

\* a click on a button of the sidebar's nav: onChangeView(item.id)
onChangeView ==
  \E c \in AuthClients, item \in navItems :
    /\ canAccess(currentUser[c], item.id, item.adminOnly)
    /\ Render(c, currentUser[c], item.id, SessionOp("onChangeView", c))
    /\ UNCHANGED <<adminVars, ledgerVars, sessionRest>>

\* a click on a page of the mobile menu: setView, with no look at canAccess
mobileMenu ==
  \E c \in AuthClients, v \in MobileViews :
    /\ currentUser[c] # NoUser
    /\ Render(c, currentUser[c], v, SessionOp("mobileMenu", c))
    /\ UNCHANGED <<adminVars, ledgerVars, sessionRest>>

\* what handleImport does to the view (its postings are the ledger's): an
\* audit sets 'reports', a committed import leaves 'reports' for 'list'
importSetView ==
  \E c \in AuthClients, mode \in {"AUDIT_SYSTEM", "ADD_STOCK"} :
    /\ currentUser[c] # NoUser
    /\ mode = "ADD_STOCK" => view[c] = "reports"
    /\ Render(c, currentUser[c],
              IF mode = "AUDIT_SYSTEM" THEN "reports" ELSE "list",
              SessionOp("handleImport", c))
    /\ UNCHANGED <<adminVars, ledgerVars, sessionRest>>

\* seeded fault: the users page is rendered for whoever is on it
RendersUserManagementAnyRole(c) ==
  currentUser[c] # NoUser /\ view[c] = "users"

\* App render: view === 'users' && currentUser.role === 'admin'
RendersUserManagement(c) ==
  currentUser[c] # NoUser /\ view[c] = "users" /\ currentUser[c].role = "admin"

\* Sidebar render: the System Admin section with backup, restore and reset
OffersSystemAdmin(c) ==
  currentUser[c] # NoUser /\ currentUser[c].role = "admin"

\* batch.set for every account of the file: a document of the same id is
\* replaced
Overwrite(list, file) ==
  {u \in list : \A f \in file : f.id # u.id} \cup file

\* handleRestoreData, for the users of the file; it ends with
\* setView('dashboard')
restoreUsers ==
  \E c \in AuthClients, file \in UserFiles :
    /\ OffersSystemAdmin(c)
    /\ usersColl' = Overwrite(usersColl, file)
    /\ users' = [users EXCEPT ![c] = Overwrite(@, file)]
    /\ Render(c, foundUser(Overwrite(users[c], file), currentUser[c]),
              "dashboard", SessionOp("handleRestoreData", c))
    /\ UNCHANGED <<adminPc, ledgerVars, sessionRest>>

\* the ids that nothing refers to
UnusedUserIds ==
  (1..MaxUsers) \ ({u.id : u \in usersColl}
                    \cup UNION {{u.id : u \in users[c]} : c \in Browsers}
                    \cup {currentUser[c].id : c \in Browsers})

\* uuidv4: a new id, here the next one
FreshUserIds ==
  {id \in UnusedUserIds : \A other \in UnusedUserIds : id <= other}

\* UserManagement.handleAddSubmit, then App.handleAddUser
handleAddSubmit ==
  \E c \in AuthClients, form \in NewAccounts :
    /\ RendersUserManagement(c)
    /\ IF \E u \in users[c] :
            ToLowerCase(u.username) = ToLowerCase(Trim(form.username))
       THEN /\ lastOp' = [SessionOp("handleAddSubmit", c) EXCEPT
                            !.error = "Username already exists."]
            /\ UNCHANGED <<usersColl, users, sessionVars>>
       ELSE \E id \in FreshUserIds :
              LET newUser == [id |-> id, username |-> Trim(form.username),
                              role |-> form.role,
                              permissions |-> IF form.role = "admin" THEN {}
                                              ELSE form.selectedPermissions]
              IN  /\ usersColl' = usersColl \cup {newUser}
                  /\ users' = [users EXCEPT ![c] = @ \cup {newUser}]
                  /\ Render(c, foundUser(users[c] \cup {newUser}, currentUser[c]),
                            view[c], SessionOp("handleAddUser", c))
    /\ UNCHANGED <<adminPc, ledgerVars, sessionRest>>

\* UserManagement.handleDelete, confirmed, then App.handleDeleteUser
handleDelete ==
  \E c \in AuthClients :
    /\ RendersUserManagement(c)
    /\ \E u \in users[c] :
         /\ u.id # currentUser[c].id
         /\ usersColl' = {w \in usersColl : w.id # u.id}
         /\ users' = [users EXCEPT ![c] = @ \ {u}]
         /\ Render(c, foundUser(users[c] \ {u}, currentUser[c]), view[c],
                   SessionOp("handleDeleteUser", c))
    /\ UNCHANGED <<adminPc, ledgerVars, sessionRest>>

\* TransactionReport.canDelete
canDelete(user, itemCreator) ==
  IF user.role = "admin" THEN TRUE ELSE itemCreator = user.username

\* App.handleDeleteItem
handleDeleteItem(c, item) ==
  /\ inventory' = inventory \ {item}
  /\ unsubInventory(inventory')
  /\ lastOp' = [SessionOp("handleDeleteItem", c) EXCEPT
                  !.item = <<item>>,
                  !.notification = <<"Record deleted from Cloud.">>]
  /\ UNCHANGED <<now, isImportModalOpen, insights, adminVars, sessionVars, sessionRest>>

\* the delete button of a row of the transaction report, confirmed
deleteFromReport ==
  \E c \in AuthClients :
    /\ currentUser[c] # NoUser
    /\ view[c] = "transaction_report"
    /\ \E k \in 1..Len(items) :
         /\ items[k].type = "TEMP_USE"
         /\ canDelete(currentUser[c], items[k].createdBy)
         /\ handleDeleteItem(c, items[k])

\* the delete button of a row of the inventory list
deleteFromList ==
  \E c \in AuthClients :
    /\ currentUser[c] # NoUser
    /\ view[c] = "list"
    /\ \E k \in 1..Len(items) : handleDeleteItem(c, items[k])

SessionNext ==
  \/ restoreSession
  \/ handleLogin
  \/ handleLogout
  \/ onChangeView
  \/ mobileMenu
  \/ importSetView
  \/ restoreUsers
  \/ handleAddSubmit
  \/ handleDelete
  \/ deleteFromReport
  \/ deleteFromList

SpecSessions == SessionsInit /\ [][SessionNext]_vars

AccessDenied == <<"Access Denied: You do not have permission for that page.">>

\* somebody who is not an admin is logged in at client c
NonAdminAt(c) == currentUser[c] # NoUser /\ currentUser[c].role # "admin"

\* the view v is not for this user
Forbidden(user, v) ==
  user # NoUser /\ user.role # "admin" /\ v # "dashboard"
  /\ v \notin user.permissions

\* C21: permissions are enforced on every change of the view.  Whenever a
\* step of a client asks for a view (by the sidebar, the mobile menu, an
\* import, a restore, a login or a new list of accounts) that is not the
\* dashboard and not among the permissions of the non-admin who is logged in
\* there, the view is the dashboard after the step and the access-denied
\* notification is set; an admin gets the view that was asked for and no
\* such notification; and after every step a non-admin's view is the
\* dashboard or one of their permissions.
C21_PermissionsEnforced ==
  [][ /\ \A c \in AuthClients :
           (currentUser'[c] # NoUser /\ currentUser'[c].role # "admin")
             => view'[c] = "dashboard" \/ view'[c] \in currentUser'[c].permissions
      /\ lastOp'.asked # Null =>
           LET c == lastOp'.client
               user == currentUser'[c]
           IN  /\ Forbidden(user, lastOp'.asked)
                    => view'[c] = "dashboard" /\ lastOp'.notification = AccessDenied
               /\ (user # NoUser /\ user.role = "admin")
                    => view'[c] = lastOp'.asked /\ lastOp'.notification # AccessDenied
    ]_vars

\* C21 witness: a non-admin asked for a forbidden page in the mobile menu and
\* is on the dashboard with the notification
C21_Witness ==
  /\ lastOp.op = "mobileMenu"
  /\ NonAdminAt(lastOp.client)
  /\ Forbidden(currentUser[lastOp.client], lastOp.asked)
  /\ view[lastOp.client] = "dashboard"
  /\ lastOp.notification = AccessDenied

\* the steps that only the user-management screen and the System Admin
\* section of the sidebar start
AdminOnlyOps ==
  {"handleAddSubmit", "handleAddUser", "handleDeleteUser", "handleRestoreData"}

\* C22: the user-management screen is rendered, and backup, restore and reset
\* are offered, only to a user whose role is admin, whatever the permissions
\* list of a non-admin says; a step of user management or a restore is made
\* by an admin only.
C22_AdminOnlyFunctions ==
  [][ /\ \A c \in AuthClients :
           (RendersUserManagement(c)' \/ OffersSystemAdmin(c)')
             => currentUser'[c].role = "admin"
      /\ lastOp'.op \in AdminOnlyOps
           => /\ currentUser[lastOp'.client] # NoUser
              /\ currentUser[lastOp'.client].role = "admin"
    ]_vars

\* C22 witness: a staff member whose permissions name the users page is on
\* the users view, and neither the screen nor the admin section is there
C22_Witness ==
  \E c \in AuthClients :
    /\ NonAdminAt(c)
    /\ "users" \in currentUser[c].permissions
    /\ view[c] = "users"
    /\ ~RendersUserManagement(c)
    /\ ~OffersSystemAdmin(c)

\* a step in which a non-admin's click deleted a TEMP_USE record
NonAdminDeletesTempUse ==
  /\ lastOp'.op = "handleDeleteItem"
  /\ NonAdminAt(lastOp'.client)
  /\ lastOp'.item[1].type = "TEMP_USE"

\* C23: a non-admin deletes a TEMP_USE record only if its createdBy is their
\* own username: in no step does a non-admin's click run handleDeleteItem
\* for a TEMP_USE record that somebody else created.
C23_OwnRecordsOnly ==
  [][NonAdminDeletesTempUse
       => lastOp'.item[1].createdBy = currentUser[lastOp'.client].username]_vars

\* C23, for the transaction report alone: there a non-admin deletes only
\* what they created
C23_InTheReport ==
  [][(NonAdminDeletesTempUse /\ view[lastOp'.client] = "transaction_report")
       => lastOp'.item[1].createdBy = currentUser[lastOp'.client].username]_vars

\* a non-admin has deleted their own record in the report
C23_ReportWitness ==
  /\ lastOp.op = "handleDeleteItem"
  /\ NonAdminAt(lastOp.client)
  /\ view[lastOp.client] = "transaction_report"
  /\ lastOp.item[1].createdBy = currentUser[lastOp.client].username

\* no two accounts of the list have usernames that differ in case only
UniqueUsernames(list) ==
  \A u \in list : \A w \in list :
    ToLowerCase(u.username) = ToLowerCase(w.username) => u.id = w.id

\* C24: the usernames of the users collection are unique ignoring case,
\* whatever accounts were created, by whichever clients.
C24_UniqueUsernames == UniqueUsernames(usersColl)

\* C24, for a client whose list is the store's: its new account keeps the
\* usernames unique
C24_FromAFreshList ==
  [][(lastOp'.op = "handleAddUser" /\ users[lastOp'.client] = usersColl
      /\ UniqueUsernames(usersColl))
       => UniqueUsernames(usersColl')]_vars

\* a client with the store's list has created an account
C24_FreshListWitness ==
  /\ lastOp.op = "handleAddUser"
  /\ users[lastOp.client] = usersColl
  /\ Cardinality(usersColl) > 1

\* the ids of the accounts of a list
IdsOf(list) == {u.id : u \in list}

\* C25: a logged-in currentUser is an account of the users collection: once
\* the users listener has delivered the store's accounts to a client, the
\* user logged in there has a document in the store (the session of a
\* deleted account has ended).
C25_SessionOfAnAccount ==
  \A c \in AuthClients :
    (currentUser[c] # NoUser /\ users[c] = usersColl)
      => currentUser[c].id \in IdsOf(usersColl)

\* C25, the part about one's own account: a deletion made in user management
\* leaves the document of the admin who made it
C25_NotOneself ==
  [][(lastOp'.op = "handleDeleteUser"
      /\ currentUser[lastOp'.client].id \in IdsOf(usersColl))
       => currentUser[lastOp'.client].id \in IdsOf(usersColl')]_vars

\* an admin has deleted an account and has their own
C25_NotOneselfWitness ==
  /\ lastOp.op = "handleDeleteUser"
  /\ currentUser[lastOp.client].id \in IdsOf(usersColl)
  /\ Cardinality(usersColl) < Cardinality(users[CHOOSE c \in AuthClients : c # lastOp.client])

====
